---- MODULE Spec2Model ----
(***************************************************************************)
(* City-Data-Analysis-Dashboard: the cross-source reconciliation pipeline. *)
(*                                                                         *)
(*   utils/area_converter.py        Geographic Resolver                    *)
(*   data_collection/census_data.py population / median-age fetcher        *)
(*   data_collection/bls_data.py    employment fetcher                     *)
(*   data_collection/crime_data.py  crime scraper                          *)
(*   analysis/data_analysis.py      reconciliation                         *)
(*                                                                         *)
(* Every component is a sequential loop; each loop iteration is one action *)
(* and the outcome of each outbound request is a nondeterministic input.   *)
(* Python's None is the empty sequence, a present value v is <<v>>.        *)
(* A dict is a sequence of entries in insertion order.                     *)
(***************************************************************************)
EXTENDS Integers, Sequences, FiniteSets, TLC

VARIABLES
    pc,                   \* position of the running component
    input_df,             \* the rows the user entered: [City, State]
    start_year, end_year, \* input_df['Start_Year'/'End_Year'].iloc[0]
    target_areas,         \* dict area_id -> area_info, in insertion order
    row_i,                \* resolver: position in input_df.iterrows()
    county_mapping,       \* resolver: dict county name -> city
    resolver_requests,    \* resolver: city pages and county lists requested so far
    error,                \* the exception that left the running component, or None
    year,                 \* loop variable of the per-year loops
    area_i,               \* position of the inner loop (areas / batches)
    census_requests,      \* census URLs requested so far
    all_population_data,  \* census_data.py: all_population_data
    all_age_data,         \* census_data.py: all_age_data
    population_df,        \* get_census_data's returned latest_population
    age_df,               \* get_census_data's returned latest_age
    bls_requests,         \* BLS POST bodies sent so far
    all_employment_data,  \* bls_data.py: all_employment_data
    employment_df,        \* get_bls_data's returned latest_employment
    state_i,              \* crime scraper: position in unique_states
    filtered_cities,      \* crime scraper: the directory entries matched for the state
    city_i,               \* crime scraper: position in filtered_cities
    crime_requests,       \* crime scraper: pages requested so far
    all_crime_data,       \* crime scraper: the frames parsed so far
    crime_df,             \* get_state_crime_data's returned frame
    demographic_data,     \* reconcile: the merged table
    crime_summary,        \* reconcile: the (City, Crime_Index, County) slice
    crtable,              \* parse_crime_table: the table it is called with
    df_crime,             \* parse_crime_table: what it returned
    growth_df,            \* get_census_data: the growth analysis, ranked
    strongest_market_info,       \* get_census_data: its third result
    employment_analysis_df,      \* get_bls_data: the trend analysis, ranked
    strongest_employment_info,   \* get_bls_data: its second result
    entry,                \* the entry point of the run: "main" (CLI) or "app" (dashboard)
    census_api_key,       \* os.getenv('CENSUS_API_KEY') is set
    bls_api_key           \* os.getenv('BLS_API_KEY') is set

resolveVars == <<row_i, county_mapping, resolver_requests, error>>

fetchVars == <<year, area_i, census_requests, all_population_data, all_age_data,
               population_df, age_df, bls_requests, all_employment_data,
               employment_df>>

crimeVars == <<state_i, filtered_cities, city_i, crime_requests, all_crime_data, crime_df>>

reconcileVars == <<demographic_data, crime_summary>>

parseVars == <<crtable, df_crime>>

analysisVars == <<growth_df, strongest_market_info, employment_analysis_df,
                  strongest_employment_info>>

runVars == <<entry, census_api_key, bls_api_key>>

vars == <<pc, input_df, start_year, end_year, target_areas, resolveVars, fetchVars,
          crimeVars, reconcileVars, parseVars, analysisVars, runVars>>

\* what a fetcher's step leaves alone besides the fetchers' own variables
fetchFrame == <<input_df, resolveVars, crimeVars, reconcileVars, parseVars, analysisVars,
                runVars>>

-----------------------------------------------------------------------------
(* Bounds of the model *)

\* longest list of input rows (cities the user enters)
MaxAreas == 2

\* the largest end_year - min_year the model explores
MaxSpan == 1

-----------------------------------------------------------------------------
(* Values *)

None == <<>>

Some(v) == <<v>>

IsNone(x) == x = None

\* range(a, b + 1) as a set
Range(a, b) == {n \in a..b : TRUE}

SeqToSet(s) == {s[k] : k \in 1..Len(s)}

\* list comprehension [x for x in s if Test(x)]
RECURSIVE SelectSeqBy(_, _)
SelectSeqBy(s, keep) ==
    IF s = <<>> THEN <<>>
    ELSE IF Head(s) \in keep THEN <<Head(s)>> \o SelectSeqBy(Tail(s), keep)
         ELSE SelectSeqBy(Tail(s), keep)

-----------------------------------------------------------------------------
(* Python str: a sequence of one-character strings *)

UpperChars == <<"A", "B", "C", "D", "E", "F", "G", "H", "I", "J", "K", "L", "M",
                "N", "O", "P", "Q", "R", "S", "T", "U", "V", "W", "X", "Y", "Z">>

LowerChars == <<"a", "b", "c", "d", "e", "f", "g", "h", "i", "j", "k", "l", "m",
                "n", "o", "p", "q", "r", "s", "t", "u", "v", "w", "x", "y", "z">>

DigitChars == {"0", "1", "2", "3", "4", "5", "6", "7", "8", "9"}

LowerChar(c) ==
    IF \E k \in 1..Len(UpperChars) : UpperChars[k] = c
    THEN LowerChars[CHOOSE k \in 1..Len(UpperChars) : UpperChars[k] = c]
    ELSE c

\* str.lower()
Lower(s) == [k \in 1..Len(s) |-> LowerChar(s[k])]

\* s[k:] starts with p
MatchesAt(s, p, k) ==
    /\ k + Len(p) - 1 <= Len(s)
    /\ \A j \in 1..Len(p) : s[k + j - 1] = p[j]

\* str.find(p) + 1: the first position where p occurs in s, 0 when it does not
IndexOf(s, p) ==
    IF \E k \in 1..(Len(s) + 1) : MatchesAt(s, p, k)
    THEN CHOOSE k \in 1..(Len(s) + 1) :
             /\ MatchesAt(s, p, k)
             /\ \A j \in 1..(k - 1) : ~MatchesAt(s, p, j)
    ELSE 0

\* p in s
Contains(p, s) == IndexOf(s, p) # 0

\* s.endswith(p)
EndsWith(s, p) == Len(p) <= Len(s) /\ MatchesAt(s, p, Len(s) - Len(p) + 1)

\* s.isdigit()
IsDigit(s) == Len(s) > 0 /\ \A k \in 1..Len(s) : s[k] \in DigitChars

\* s.replace(old, new), old non-empty: every non-overlapping occurrence, left to right
RECURSIVE Replace(_, _, _)
Replace(s, old, new) ==
    LET k == IndexOf(s, old) IN
    IF k = 0 \/ s = <<>> THEN s
    ELSE SubSeq(s, 1, k - 1) \o new
         \o Replace(SubSeq(s, k + Len(old), Len(s)), old, new)

\* s.lstrip(chars) / s.rstrip(chars) / s.strip()
RECURSIVE LStripChars(_, _)
LStripChars(s, chars) ==
    IF s # <<>> /\ Head(s) \in chars THEN LStripChars(Tail(s), chars) ELSE s

RECURSIVE RStripChars(_, _)
RStripChars(s, chars) ==
    IF s # <<>> /\ s[Len(s)] \in chars
    THEN RStripChars(SubSeq(s, 1, Len(s) - 1), chars)
    ELSE s

Strip(s) == RStripChars(LStripChars(s, {" "}), {" "})

\* s.split(sep), sep non-empty
RECURSIVE Split(_, _)
Split(s, sep) ==
    LET k == IndexOf(s, sep) IN
    IF k = 0 \/ s = <<>> THEN <<s>>
    ELSE <<SubSeq(s, 1, k - 1)>> \o Split(SubSeq(s, k + Len(sep), Len(s)), sep)

-----------------------------------------------------------------------------
(* Python dict: a sequence of [key, value] entries in insertion order *)

DictHas(d, k) == \E n \in 1..Len(d) : d[n].key = k

DictGet(d, k) == d[CHOOSE n \in 1..Len(d) : d[n].key = k].value

\* d[k] = v: a present key keeps its place and takes the new value
DictSet(d, k, v) ==
    IF DictHas(d, k)
    THEN [n \in 1..Len(d) |-> IF d[n].key = k THEN [key |-> k, value |-> v] ELSE d[n]]
    ELSE Append(d, [key |-> k, value |-> v])

-----------------------------------------------------------------------------
(* The cities of the model and what the external sources say about them *)

Orlando == <<"O", "r", "l", "a", "n", "d", "o">>

Apopka == <<"A", "p", "o", "p", "k", "a">>

Tampa == <<"T", "a", "m", "p", "a">>

FL == <<"F", "L">>

OrangeCounty == <<"O", "r", "a", "n", "g", "e", " ", "C", "o", "u", "n", "t", "y">>

HillsboroughCounty == <<"H", "i", "l", "l", "s", "b", "o", "r", "o", "u", "g", "h",
                        " ", "C", "o", "u", "n", "t", "y">>

Fips12 == <<"1", "2">>

Fips095 == <<"0", "9", "5">>

Fips057 == <<"0", "5", "7">>

Fips000 == <<"0", "0", "0">>

\* area_id = f"{city.lower().replace(' ', '_')}_{state.lower()}"
AreaId(city, state) == Replace(Lower(city), <<" ">>, <<"_">>) \o <<"_">> \o Lower(state)

\* the target_areas entry the resolver stores
AreaInfo(city, state, county, fips_state, fips_county) ==
    [key   |-> AreaId(city, state),
     value |-> [state |-> state, county |-> county, fips_state |-> fips_state,
                fips_county |-> fips_county, city |-> city]]

-----------------------------------------------------------------------------
(* Column names and fixed strings *)

ColCity == <<"C", "i", "t", "y">>

ColCounty == <<"C", "o", "u", "n", "t", "y">>

ColPopulation == <<"P", "o", "p", "u", "l", "a", "t", "i", "o", "n">>

ColMedianAge == <<"M", "e", "d", "i", "a", "n", " ", "A", "g", "e">>

ColUnemploymentRate == <<"u", "n", "e", "m", "p", "l", "o", "y", "m", "e", "n", "t",
                         "_", "r", "a", "t", "e">>

ColEmployed == <<"e", "m", "p", "l", "o", "y", "e", "d">>

ColCrimeIndex == <<"C", "r", "i", "m", "e", "_", "I", "n", "d", "e", "x">>

ColCrimeType == <<"C", "r", "i", "m", "e", "_", "T", "y", "p", "e">>

LAUCN == <<"L", "A", "U", "C", "N">>

UnempSuffix == <<"0", "0", "0", "0", "0", "0", "0", "0", "0", "3">>

EmpSuffix == <<"0", "0", "0", "0", "0", "0", "0", "0", "0", "5">>

\* pd.DataFrame: the column names and the rows, each row aligned with the columns
DataFrame(columns, rows) == [columns |-> columns, rows |-> rows]

\* pd.DataFrame()
EmptyFrame == DataFrame(<<>>, <<>>)

\* df.empty
IsEmpty(df) == df.rows = <<>> \/ df.columns = <<>>

ColIndex(df, col) == CHOOSE k \in 1..Len(df.columns) : df.columns[k] = col

HasColumn(df, col) == \E k \in 1..Len(df.columns) : df.columns[k] = col

\* max of a non-empty set of integers
Max(S) == CHOOSE m \in S : \A n \in S : n <= m

-----------------------------------------------------------------------------
(* The inputs the fetchers are called with *)

\* earliest year both entry points let the user choose
min_year == 2009

\* get_census_data skips a year below this one
AcsFirstYear == 2009

\* series per BLS request
batch_size == 50

\* what the directory source and the county list say about each city
CityFacts ==
    << [city |-> Orlando, state |-> FL, county |-> OrangeCounty,
        fips_state |-> Fips12, fips_county |-> Fips095],
       [city |-> Apopka, state |-> FL, county |-> OrangeCounty,
        fips_state |-> Fips12, fips_county |-> Fips095],
       [city |-> Tampa, state |-> FL, county |-> HillsboroughCounty,
        fips_state |-> Fips12, fips_county |-> Fips057] >>

\* lists of distinct cities, at most MaxAreas long
CityLists ==
    {cs \in UNION {[1..n -> 1..Len(CityFacts)] : n \in 1..MaxAreas} :
        \A a, b \in DOMAIN cs : a # b => cs[a] # cs[b]}

\* the target-area maps the resolver hands to the fetchers: each city resolved to its
\* county, its county FIPS either found or the sentinel "000"
TargetAreaMaps ==
    {[k \in DOMAIN cs |->
        AreaInfo(CityFacts[cs[k]].city, CityFacts[cs[k]].state, CityFacts[cs[k]].county,
                 CityFacts[cs[k]].fips_state,
                 IF k \in lost THEN Fips000 ELSE CityFacts[cs[k]].fips_county)] :
     cs \in CityLists, lost \in SUBSET (1..MaxAreas)}

\* values the census API serves
Populations == {250000}

MedianAges == {38}

\* values the BLS API serves
UnemploymentRates == {4}

EmployedLevels == {600000}

-----------------------------------------------------------------------------
(* data_collection/census_data.py: get_census_data *)

\* a skip test that knows the empty code only
MutSkipsEmptyFipsOnly(area_info) == area_info.fips_county = <<>>

\* the fetchers skip an area without a valid county FIPS code
HasNoValidFips(area_info) ==
    area_info.fips_county = Fips000 \/ area_info.fips_county = <<>>

\* the variable parts of the ACS URL
CensusUrl(y, area_info) ==
    [year |-> y, county |-> area_info.fips_county, state |-> area_info.fips_state]

PopulationRecord(y, area_info, population) ==
    [Year |-> y, City |-> area_info.city, State |-> area_info.state,
     County |-> area_info.county, Population |-> population]

AgeRecord(y, area_info, median_age) ==
    [Year |-> y, City |-> area_info.city, State |-> area_info.state,
     County |-> area_info.county, Median_Age |-> median_age]

\* for year in range(start_year, end_year + 1): the year's entry, with its early skip
CensusYear ==
    /\ pc = "census_year"
    /\ UNCHANGED fetchFrame
    /\ IF year > end_year
       THEN pc' = "census_return" /\ UNCHANGED <<year, area_i>>
       ELSE IF year < AcsFirstYear
            THEN pc' = pc /\ year' = year + 1 /\ UNCHANGED area_i
            ELSE pc' = "census_area" /\ area_i' = 1 /\ UNCHANGED year
    /\ UNCHANGED <<target_areas, start_year, end_year, census_requests,
                   all_population_data, all_age_data, population_df, age_df,
                   bls_requests, all_employment_data, employment_df>>

\* the area loop of one year is exhausted
CensusAreasDone ==
    /\ pc = "census_area"
    /\ UNCHANGED fetchFrame
    /\ area_i > Len(target_areas)
    /\ pc' = "census_year"
    /\ year' = year + 1
    /\ UNCHANGED <<target_areas, start_year, end_year, area_i, census_requests,
                   all_population_data, all_age_data, population_df, age_df,
                   bls_requests, all_employment_data, employment_df>>

\* an area without a valid FIPS code: continue
CensusSkipArea ==
    /\ pc = "census_area"
    /\ UNCHANGED fetchFrame
    /\ area_i <= Len(target_areas)
    /\ HasNoValidFips(target_areas[area_i].value)
    /\ area_i' = area_i + 1
    /\ UNCHANGED <<pc, target_areas, start_year, end_year, year, census_requests,
                   all_population_data, all_age_data, population_df, age_df,
                   bls_requests, all_employment_data, employment_df>>

\* the request succeeds and both values parse: one record each
CensusRequestOk ==
    /\ pc = "census_area"
    /\ UNCHANGED fetchFrame
    /\ area_i <= Len(target_areas)
    /\ ~HasNoValidFips(target_areas[area_i].value)
    /\ \E population \in Populations, median_age \in MedianAges :
        LET area_info == target_areas[area_i].value IN
        /\ census_requests' = Append(census_requests,
               [url |-> CensusUrl(year, area_info), area |-> target_areas[area_i].key,
                ok |-> TRUE])
        /\ all_population_data' = Append(all_population_data,
               PopulationRecord(year, area_info, Some(population)))
        /\ all_age_data' = Append(all_age_data,
               AgeRecord(year, area_info, Some(median_age)))
    /\ area_i' = area_i + 1
    /\ UNCHANGED <<pc, target_areas, start_year, end_year, year, population_df, age_df,
                   bls_requests, all_employment_data, employment_df>>

\* an except branch that logs the error and appends no placeholder
MutCensusErrorDropsPair ==
    /\ pc = "census_area"
    /\ UNCHANGED fetchFrame
    /\ area_i <= Len(target_areas)
    /\ ~HasNoValidFips(target_areas[area_i].value)
    /\ census_requests' = Append(census_requests,
           [url |-> CensusUrl(year, target_areas[area_i].value),
            area |-> target_areas[area_i].key, ok |-> FALSE])
    /\ area_i' = area_i + 1
    /\ UNCHANGED <<pc, target_areas, start_year, end_year, year, all_population_data,
                   all_age_data, population_df, age_df, bls_requests,
                   all_employment_data, employment_df>>

\* a request whose exception is not caught: the fetcher stops there
MutCensusErrorPropagates ==
    /\ pc = "census_area"
    /\ UNCHANGED fetchFrame
    /\ area_i <= Len(target_areas)
    /\ ~HasNoValidFips(target_areas[area_i].value)
    /\ census_requests' = Append(census_requests,
           [url |-> CensusUrl(year, target_areas[area_i].value),
            area |-> target_areas[area_i].key, ok |-> FALSE])
    /\ pc' = "raised"
    /\ UNCHANGED <<target_areas, start_year, end_year, year, area_i,
                   all_population_data, all_age_data, population_df, age_df,
                   bls_requests, all_employment_data, employment_df>>

\* except Exception (HTTP error, malformed JSON, missing key): placeholder records
CensusRequestError ==
    /\ pc = "census_area"
    /\ UNCHANGED fetchFrame
    /\ area_i <= Len(target_areas)
    /\ ~HasNoValidFips(target_areas[area_i].value)
    /\ LET area_info == target_areas[area_i].value IN
        /\ census_requests' = Append(census_requests,
               [url |-> CensusUrl(year, area_info), area |-> target_areas[area_i].key,
                ok |-> FALSE])
        /\ all_population_data' = Append(all_population_data,
               PopulationRecord(year, area_info, None))
        /\ all_age_data' = Append(all_age_data, AgeRecord(year, area_info, None))
    /\ area_i' = area_i + 1
    /\ UNCHANGED <<pc, target_areas, start_year, end_year, year, population_df, age_df,
                   bls_requests, all_employment_data, employment_df>>

\* the rows of the latest year, as [County, value]
LatestSlice(records, field) ==
    IF records = <<>> THEN <<>>
    ELSE LET latest_year == Max({records[k].Year : k \in 1..Len(records)})
             keep == {r \in SeqToSet(records) : r.Year = latest_year}
             rows == SelectSeqBy(records, keep)
         IN [k \in 1..Len(rows) |-> <<rows[k].County, rows[k][field]>>]

\* the characters of the model in code point order
CodePoints ==
 << " ", "(", ")", ",", "-", ".", "0", "1", "2", "3", "4", "5", "6", "7", "8", "9",
    "A", "B", "C", "D", "E", "F", "G", "H", "I", "J", "K", "L", "M", "N", "O", "P",
    "Q", "R", "S", "T", "U", "V", "W", "X", "Y", "Z", "_", "a", "b", "c", "d", "e",
    "f", "g", "h", "i", "j", "k", "l", "m", "n", "o", "p", "q", "r", "s", "t", "u",
    "v", "w", "x", "y", "z" >>

\* ord(c)
CodePoint(c) == CHOOSE k \in 1..Len(CodePoints) : CodePoints[k] = c

\* a < b on str
RECURSIVE StrLess(_, _)
StrLess(a, b) ==
    IF b = <<>> THEN FALSE
    ELSE IF a = <<>> THEN TRUE
    ELSE IF Head(a) = Head(b) THEN StrLess(Tail(a), Tail(b))
    ELSE CodePoint(Head(a)) < CodePoint(Head(b))

\* sorted(...) of distinct strings
RECURSIVE SortedStrings(_)
SortedStrings(S) ==
    IF S = {} THEN <<>>
    ELSE LET least == CHOOSE x \in S : \A y \in S \ {x} : StrLess(x, y)
         IN <<least>> \o SortedStrings(S \ {least})

\* the concatenation of a sequence of sequences
RECURSIVE Flatten(_)
Flatten(seqs) == IF seqs = <<>> THEN <<>> ELSE Head(seqs) \o Flatten(Tail(seqs))

\* math.gcd
RECURSIVE GCD(_, _)
GCD(a, b) == IF b = 0 THEN a ELSE GCD(b, a % b)

\* base ** exponent of whole numbers
RECURSIVE Pow(_, _)
Pow(base, exponent) == IF exponent = 0 THEN 1 ELSE base * Pow(base, exponent - 1)

\* the growth rate that leaves the root out
MutCagrWithoutRoot(end, start, years_diff) ==
    [num |-> end \div GCD(end, start), den |-> start \div GCD(end, start), years |-> 1]

\* ((end / start) ** (1 / years_diff) - 1) * 100 as the real number it stands for: the
\* ratio in lowest terms and the root taken of it
Cagr(end, start, years_diff) ==
    [num |-> end \div GCD(end, start), den |-> start \div GCD(end, start),
     years |-> years_diff]

\* the comparison turned round: the least rate ranked first
MutCagrGreater(a, b) ==
    IF a.years = b.years THEN b.num * a.den < a.num * b.den
    ELSE Pow(b.num, a.years) * Pow(a.den, b.years)
         < Pow(a.num, b.years) * Pow(b.den, a.years)

\* a < b on two growth rates: the ratios compared when the roots are the same, and
\* otherwise both raised to the product of the two roots
CagrLess(a, b) ==
    IF a.years = b.years THEN a.num * b.den < b.num * a.den
    ELSE Pow(a.num, b.years) * Pow(b.den, a.years)
         < Pow(b.num, a.years) * Pow(a.den, b.years)

\* ((end - start) / start) * 100, a fraction in lowest terms with a positive denominator
TotalGrowth(end, start) ==
    LET n == (end - start) * 100
        g == GCD(IF n < 0 THEN -n ELSE n, start)
    IN [num |-> n \div g, den |-> start \div g]

\* (city, state, county) < (city, state, county) on tuples of str
LocationLess(a, b) ==
    \/ StrLess(a[1], b[1])
    \/ a[1] = b[1] /\ StrLess(a[2], b[2])
    \/ a[1] = b[1] /\ a[2] = b[2] /\ StrLess(a[3], b[3])

\* the group keys of df.groupby(['City', 'State', 'County']), in sorted order
RECURSIVE SortedLocations(_)
SortedLocations(S) ==
    IF S = {} THEN <<>>
    ELSE LET least == CHOOSE x \in S : \A y \in S \ {x} : LocationLess(x, y)
         IN <<least>> \o SortedLocations(S \ {least})

GroupKeys(records) ==
    SortedLocations({<<records[k].City, records[k].State, records[k].County>> :
                        k \in 1..Len(records)})

\* location_data.sort_values('Year') of records of distinct years
RECURSIVE SortedByYear(_)
SortedByYear(S) ==
    IF S = {} THEN <<>>
    ELSE LET first == CHOOSE x \in S : \A y \in S : x.Year <= y.Year
         IN <<first>> \o SortedByYear(S \ {first})

\* the records of one group, by year, without those that miss one of the fields
LocationData(records, key, fields) ==
    SelectSeq(SortedByYear({r \in SeqToSet(records) : <<r.City, r.State, r.County>> = key}),
              LAMBDA r : \A f \in fields : r[f] # None)

\* len(df['Year'].unique()) > 1 of a frame that is not empty
HasSeveralYears(records) ==
    Cardinality({records[k].Year : k \in 1..Len(records)}) > 1

\* a growth analysis that ranks only the locations with three observations or more
MutNeedsThreeObservations(key, location_data) ==
    IF Len(location_data) >= 3
    THEN LET start_pop == location_data[1].Population[1]
             end_pop == location_data[Len(location_data)].Population[1]
             years_diff == location_data[Len(location_data)].Year - location_data[1].Year
         IN IF years_diff > 0 /\ start_pop > 0
            THEN Some([City |-> key[1], State |-> key[2], County |-> key[3],
                       Start_Population |-> start_pop, End_Population |-> end_pop,
                       Total_Growth_Pct |-> TotalGrowth(end_pop, start_pop),
                       CAGR_Pct |-> Cagr(end_pop, start_pop, years_diff),
                       Years_Analyzed |-> years_diff])
            ELSE None
    ELSE None

\* the dict appended to growth_analysis for a location, None for a location that is
\* left out
GrowthRow(key, location_data) ==
    IF Len(location_data) >= 2
    THEN LET start_pop == location_data[1].Population[1]
             end_pop == location_data[Len(location_data)].Population[1]
             years_diff == location_data[Len(location_data)].Year - location_data[1].Year
         IN IF years_diff > 0 /\ start_pop > 0
            THEN Some([City |-> key[1], State |-> key[2], County |-> key[3],
                       Start_Population |-> start_pop, End_Population |-> end_pop,
                       Total_Growth_Pct |-> TotalGrowth(end_pop, start_pop),
                       CAGR_Pct |-> Cagr(end_pop, start_pop, years_diff),
                       Years_Analyzed |-> years_diff])
            ELSE None
    ELSE None

\* growth_analysis after the loop over the groups
GrowthAnalysis(records) ==
    IF records = <<>> \/ ~HasSeveralYears(records) THEN <<>>
    ELSE LET keys == GroupKeys(records)
         IN Flatten([k \in 1..Len(keys) |->
                        GrowthRow(keys[k], LocationData(records, keys[k], {"Population"}))])

\* the orders of distinct rows in which no row stands before a row with a greater
\* score, less being the pairs (a, b) with a < b: rows of one score come in any order
DescendingOrders(rows, less) ==
    {order \in [1..Len(rows) -> SeqToSet(rows)] :
        /\ \A i, j \in 1..Len(rows) : i # j => order[i] # order[j]
        /\ \A i, j \in 1..Len(rows) : i < j => <<order[i], order[j]>> \notin less}

CagrRowLess(a, b) == CagrLess(a.CAGR_Pct, b.CAGR_Pct)

\* growth_df.sort_values('CAGR_Pct', ascending=False): the orders it can give
RankedGrowth(records) ==
    LET rows == SeqToSet(GrowthAnalysis(records))
    IN DescendingOrders(GrowthAnalysis(records),
                        {p \in rows \X rows : CagrRowLess(p[1], p[2])})

\* strongest_market_info: None without a ranked location, else read off growth_df.iloc[0]
StrongestMarketInfo(ranked) ==
    IF ranked = <<>> THEN None
    ELSE Some([city |-> ranked[1].City, county |-> ranked[1].County,
               cagr |-> ranked[1].CAGR_Pct, total_growth |-> ranked[1].Total_Growth_Pct])

\* the growth analysis and the summary frames of the most recent year, returned to the
\* caller
CensusReturn ==
    /\ pc = "census_return"
    /\ UNCHANGED <<input_df, resolveVars, crimeVars, reconcileVars, parseVars, runVars,
                   employment_analysis_df, strongest_employment_info>>
    /\ \E ranked \in RankedGrowth(all_population_data) :
          /\ growth_df' = ranked
          /\ strongest_market_info' = StrongestMarketInfo(ranked)
    /\ population_df' = DataFrame(<<ColCounty, ColPopulation>>,
                                  LatestSlice(all_population_data, "Population"))
    /\ age_df' = DataFrame(<<ColCounty, ColMedianAge>>,
                           LatestSlice(all_age_data, "Median_Age"))
    /\ pc' = "census_returned"
    /\ UNCHANGED <<target_areas, start_year, end_year, year, area_i, census_requests,
                   all_population_data, all_age_data, bls_requests,
                   all_employment_data, employment_df>>

-----------------------------------------------------------------------------
(* data_collection/bls_data.py: get_bls_data *)

\* location_key = f"{city}, {state} ({county})"
LocationKey(area_info) ==
    area_info.city \o <<",", " ">> \o area_info.state \o <<" ", "(">>
    \o area_info.county \o <<")">>

\* bls_area_codes: location key -> state FIPS + county FIPS, areas without a valid
\* FIPS code left out
RECURSIVE BlsAreaCodes(_)
BlsAreaCodes(areas) ==
    IF areas = <<>> THEN <<>>
    ELSE LET rest == BlsAreaCodes(SubSeq(areas, 1, Len(areas) - 1))
             area_info == areas[Len(areas)].value
         IN IF HasNoValidFips(area_info) THEN rest
            ELSE DictSet(rest, LocationKey(area_info),
                         area_info.fips_state \o area_info.fips_county)

\* f"LAUCN{area_code}0000000003" and f"LAUCN{area_code}0000000005"
UnempSeries(area_code) == LAUCN \o area_code \o UnempSuffix

EmpSeries(area_code) == LAUCN \o area_code \o EmpSuffix

\* series_ids: two series per location, in location order
RECURSIVE SeriesIds(_)
SeriesIds(codes) ==
    IF codes = <<>> THEN <<>>
    ELSE <<UnempSeries(Head(codes).value), EmpSeries(Head(codes).value)>>
         \o SeriesIds(Tail(codes))

\* series_to_location: series id -> (location key, data type); a later location with
\* the same area code takes the entry over
RECURSIVE SeriesToLocation(_)
SeriesToLocation(codes) ==
    IF codes = <<>> THEN <<>>
    ELSE LET rest == SeriesToLocation(SubSeq(codes, 1, Len(codes) - 1))
             last == codes[Len(codes)]
         IN DictSet(DictSet(rest, UnempSeries(last.value),
                            [location_key |-> last.key, data_type |-> "unemployment_rate"]),
                    EmpSeries(last.value),
                    [location_key |-> last.key, data_type |-> "employed"])

\* series_ids[i:i + batch_size]
Batch(series_ids, i) ==
    SubSeq(series_ids, i + 1,
           IF i + batch_size < Len(series_ids) THEN i + batch_size ELSE Len(series_ids))

\* year_employment_data after the loop over the response's series: a series with a
\* data point sets its location's value for its data type
RECURSIVE YearEmploymentData(_, _)
YearEmploymentData(series, series_to_location) ==
    IF series = <<>> THEN <<>>
    ELSE LET rest == YearEmploymentData(SubSeq(series, 1, Len(series) - 1),
                                        series_to_location)
             last == series[Len(series)]
         IN IF DictHas(series_to_location, last.seriesID) /\ Len(last.data) > 0
            THEN LET where == DictGet(series_to_location, last.seriesID)
                     old == IF DictHas(rest, where.location_key)
                            THEN DictGet(rest, where.location_key)
                            ELSE [unemployment_rate |-> None, employed |-> None]
                 IN DictSet(rest, where.location_key,
                            [old EXCEPT ![where.data_type] = Some(last.data[1])])
            ELSE rest

\* the record of one location, its city, state and county parsed back out of the
\* location key
EmploymentRecord(y, location_key, emp_data) ==
    LET parts == Split(location_key, <<" ", "(">>)
        city_state == Split(parts[1], <<",", " ">>)
    IN [Year |-> y, City |-> city_state[1], State |-> city_state[2],
        County |-> RStripChars(parts[2], {")"}),
        unemployment_rate |-> emp_data.unemployment_rate,
        employed |-> emp_data.employed]

EmploymentRecords(y, year_employment_data) ==
    [k \in 1..Len(year_employment_data) |->
        EmploymentRecord(y, year_employment_data[k].key, year_employment_data[k].value)]

\* the series of a batch at the positions of keep, each with one data point
SeriesWithData(batch, keep, rate, level) ==
    LET kept == SelectSeqBy([k \in 1..Len(batch) |-> k], keep)
    IN [k \in 1..Len(kept) |->
           [seriesID |-> batch[kept[k]],
            data |-> <<IF EndsWith(batch[kept[k]], UnempSuffix) THEN rate ELSE level>>]]

\* the response bodies the API serves for a batch: the series of any set of the
\* requested area codes, with data; all series but one; one series alone; or every
\* series listed with no data point
BlsResponses(batch) ==
    LET positions == 1..Len(batch)
        AreaCodeOf(k) == SubSeq(batch[k], Len(LAUCN) + 1, Len(batch[k]) - Len(UnempSuffix))
        keeps == {{k \in positions : AreaCodeOf(k) \in codes} :
                      codes \in SUBSET {AreaCodeOf(k) : k \in positions}}
                 \cup {positions \ {k} : k \in positions}
                 \cup {{k} : k \in positions}
    IN {SeriesWithData(batch, keep, rate, level) :
            keep \in keeps, rate \in UnemploymentRates, level \in EmployedLevels}
       \cup {[k \in positions |-> [seriesID |-> batch[k], data |-> <<>>]]}

\* the request body sent, with what came back: the status and the series served
BlsPost(batch, y, status, series) ==
    [seriesid |-> batch, startyear |-> y, endyear |-> y, status |-> status,
     series |-> series]

\* the areas with a valid FIPS code are collected; with none the fetcher returns
BlsSetup ==
    /\ pc = "bls_setup"
    /\ UNCHANGED fetchFrame
    /\ IF BlsAreaCodes(target_areas) = <<>>
       THEN /\ pc' = "bls_returned"
            /\ employment_df' = EmptyFrame
            /\ UNCHANGED year
       ELSE /\ pc' = "bls_year"
            /\ year' = start_year
            /\ UNCHANGED employment_df
    /\ UNCHANGED <<target_areas, start_year, end_year, area_i, census_requests,
                   all_population_data, all_age_data, population_df, age_df,
                   bls_requests, all_employment_data>>

\* for year in range(start_year, end_year + 1)
BlsYear ==
    /\ pc = "bls_year"
    /\ UNCHANGED fetchFrame
    /\ IF year > end_year
       THEN pc' = "bls_return" /\ UNCHANGED area_i
       ELSE pc' = "bls_batch" /\ area_i' = 0
    /\ UNCHANGED <<target_areas, start_year, end_year, year, census_requests,
                   all_population_data, all_age_data, population_df, age_df,
                   bls_requests, all_employment_data, employment_df>>

\* for i in range(0, len(series_ids), batch_size): exhausted
BlsBatchesDone ==
    /\ pc = "bls_batch"
    /\ UNCHANGED fetchFrame
    /\ area_i >= Len(SeriesIds(BlsAreaCodes(target_areas)))
    /\ pc' = "bls_year"
    /\ year' = year + 1
    /\ UNCHANGED <<target_areas, start_year, end_year, area_i, census_requests,
                   all_population_data, all_age_data, population_df, age_df,
                   bls_requests, all_employment_data, employment_df>>

\* the request raises, or its status is not REQUEST_SUCCEEDED: a message is printed
BlsBatchFailed ==
    /\ pc = "bls_batch"
    /\ UNCHANGED fetchFrame
    /\ area_i < Len(SeriesIds(BlsAreaCodes(target_areas)))
    /\ \E status \in {"exception", "REQUEST_FAILED"} :
        bls_requests' = Append(bls_requests,
            BlsPost(Batch(SeriesIds(BlsAreaCodes(target_areas)), area_i), year,
                    status, <<>>))
    /\ area_i' = area_i + batch_size
    /\ UNCHANGED <<pc, target_areas, start_year, end_year, year, census_requests,
                   all_population_data, all_age_data, population_df, age_df,
                   all_employment_data, employment_df>>

\* REQUEST_SUCCEEDED: one record per location that got a value
BlsBatchSucceeded ==
    /\ pc = "bls_batch"
    /\ UNCHANGED fetchFrame
    /\ area_i < Len(SeriesIds(BlsAreaCodes(target_areas)))
    /\ LET codes == BlsAreaCodes(target_areas)
           batch == Batch(SeriesIds(codes), area_i)
       IN \E series \in BlsResponses(batch) :
            /\ bls_requests' = Append(bls_requests,
                   BlsPost(batch, year, "REQUEST_SUCCEEDED", series))
            /\ all_employment_data' = all_employment_data \o
                   EmploymentRecords(year,
                       YearEmploymentData(series, SeriesToLocation(codes)))
    /\ area_i' = area_i + batch_size
    /\ UNCHANGED <<pc, target_areas, start_year, end_year, year, census_requests,
                   all_population_data, all_age_data, population_df, age_df,
                   employment_df>>

\* the rows of the latest year, as [County, unemployment_rate, employed]
LatestEmployment(records) ==
    IF records = <<>> THEN EmptyFrame
    ELSE LET latest_year == Max({records[k].Year : k \in 1..Len(records)})
             keep == {r \in SeqToSet(records) : r.Year = latest_year}
             rows == SelectSeqBy(records, keep)
         IN DataFrame(<<ColCounty, ColUnemploymentRate, ColEmployed>>,
                      [k \in 1..Len(rows) |->
                          <<rows[k].County, rows[k].unemployment_rate, rows[k].employed>>])

\* the whole number under 100 * (num / den) ** (1 / years), for a ratio under 8
RootHundredths(c) ==
    CHOOSE g \in 0..800 : /\ Pow(g, c.years) * c.den <= c.num * Pow(100, c.years)
                          /\ c.num * Pow(100, c.years) < Pow(g + 1, c.years) * c.den

\* a growth rate that is a fraction: no root to take, or the root of 1
IsFraction(c) == c.years = 1 \/ c.num = c.den

\* the score with the unemployment change taken once
MutCompositeUnweighted(employment_cagr, unemployment_change) ==
    [cagr |-> employment_cagr, plus |-> 0 - unemployment_change]

\* employment_cagr - (unemployment_change * 2) as the real number it stands for: the
\* growth rate and what is added to it
CompositeScore(employment_cagr, unemployment_change) ==
    [cagr |-> employment_cagr, plus |-> 0 - (unemployment_change * 2)]

\* a < b on two composite scores. With the same addend the growth rates decide; two
\* fractions are compared as fractions; a rate that is not greater with an addend that
\* is smaller is less; what is left is decided on the rates to a whole percent
ScoreLess(a, b) ==
    IF a.plus = b.plus THEN CagrLess(a.cagr, b.cagr)
    ELSE IF IsFraction(a.cagr) /\ IsFraction(b.cagr)
    THEN LET na == IF a.cagr.num = a.cagr.den THEN 0 ELSE 100 * (a.cagr.num - a.cagr.den)
             nb == IF b.cagr.num = b.cagr.den THEN 0 ELSE 100 * (b.cagr.num - b.cagr.den)
         IN (na + a.plus * a.cagr.den) * b.cagr.den < (nb + b.plus * b.cagr.den) * a.cagr.den
    ELSE IF ~CagrLess(b.cagr, a.cagr) /\ a.plus < b.plus THEN TRUE
    ELSE IF ~CagrLess(a.cagr, b.cagr) /\ a.plus > b.plus THEN FALSE
    ELSE RootHundredths(a.cagr) + a.plus < RootHundredths(b.cagr) + b.plus

\* the dict appended to employment_analysis for a location, None for a location that is
\* left out
TrendRow(key, location_data) ==
    IF Len(location_data) >= 2
    THEN LET first == location_data[1]
             last == location_data[Len(location_data)]
             start_employed == first.employed[1]
             end_employed == last.employed[1]
             start_unemployment == first.unemployment_rate[1]
             end_unemployment == last.unemployment_rate[1]
             years_diff == last.Year - first.Year
             employment_cagr == Cagr(end_employed, start_employed, years_diff)
             unemployment_change == end_unemployment - start_unemployment
         IN IF years_diff > 0 /\ start_employed > 0
            THEN Some([City |-> key[1], State |-> key[2], County |-> key[3],
                       Start_Employed |-> start_employed, End_Employed |-> end_employed,
                       Employment_Growth_Pct |-> TotalGrowth(end_employed, start_employed),
                       Employment_CAGR_Pct |-> employment_cagr,
                       Start_Unemployment_Rate |-> start_unemployment,
                       End_Unemployment_Rate |-> end_unemployment,
                       Unemployment_Change |-> unemployment_change,
                       Composite_Score |-> CompositeScore(employment_cagr,
                                                          unemployment_change),
                       Years_Analyzed |-> years_diff])
            ELSE None
    ELSE None

\* employment_analysis after the loop over the groups
TrendAnalysis(records) ==
    IF records = <<>> \/ ~HasSeveralYears(records) THEN <<>>
    ELSE LET keys == GroupKeys(records)
         IN Flatten([k \in 1..Len(keys) |->
                        TrendRow(keys[k], LocationData(records, keys[k],
                                                       {"employed", "unemployment_rate"}))])

ScoreRowLess(a, b) == ScoreLess(a.Composite_Score, b.Composite_Score)

\* employment_analysis_df.sort_values('Composite_Score', ascending=False): the orders
\* it can give
RankedTrend(records) ==
    LET rows == SeqToSet(TrendAnalysis(records))
    IN DescendingOrders(TrendAnalysis(records),
                        {p \in rows \X rows : ScoreRowLess(p[1], p[2])})

\* strongest_employment_info: None without a ranked location, else read off
\* employment_analysis_df.iloc[0]
StrongestEmploymentInfo(ranked) ==
    IF ranked = <<>> THEN None
    ELSE Some([city |-> ranked[1].City, county |-> ranked[1].County,
               employment_cagr |-> ranked[1].Employment_CAGR_Pct,
               unemployment_change |-> ranked[1].Unemployment_Change,
               composite_score |-> ranked[1].Composite_Score])

BlsReturn ==
    /\ pc = "bls_return"
    /\ UNCHANGED <<input_df, resolveVars, crimeVars, reconcileVars, parseVars, runVars,
                   growth_df, strongest_market_info>>
    /\ \E ranked \in RankedTrend(all_employment_data) :
          /\ employment_analysis_df' = ranked
          /\ strongest_employment_info' = StrongestEmploymentInfo(ranked)
    /\ employment_df' = LatestEmployment(all_employment_data)
    /\ pc' = "bls_returned"
    /\ UNCHANGED <<target_areas, start_year, end_year, year, area_i, census_requests,
                   all_population_data, all_age_data, population_df, age_df,
                   bls_requests, all_employment_data>>

-----------------------------------------------------------------------------
(* The variables of a component that is not running *)

ResolveIdle ==
    /\ row_i = 0
    /\ county_mapping = <<>>
    /\ resolver_requests = <<>>
    /\ error = None

FetchIdle ==
    /\ year = 0
    /\ area_i = 0
    /\ census_requests = <<>>
    /\ all_population_data = <<>>
    /\ all_age_data = <<>>
    /\ bls_requests = <<>>
    /\ all_employment_data = <<>>

CrimeIdle ==
    /\ state_i = 0
    /\ filtered_cities = <<>>
    /\ city_i = 0
    /\ crime_requests = <<>>
    /\ all_crime_data = <<>>
    /\ crime_df = EmptyFrame

ReconcileIdle ==
    /\ demographic_data = EmptyFrame
    /\ crime_summary = EmptyFrame

ParseIdle ==
    /\ crtable = None
    /\ df_crime = None

AnalysisIdle ==
    /\ growth_df = <<>>
    /\ strongest_market_info = None
    /\ employment_analysis_df = <<>>
    /\ strongest_employment_info = None

\* a component called on its own: no entry point, both keys at hand
RunIdle ==
    /\ entry = "none"
    /\ census_api_key = TRUE
    /\ bls_api_key = TRUE

-----------------------------------------------------------------------------
(* The fetchers, each run on a target-area map and a year range *)

InitFetch ==
    /\ pc \in {"census_year", "bls_setup"}
    /\ input_df = <<>>
    /\ ResolveIdle
    /\ CrimeIdle
    /\ ReconcileIdle
    /\ ParseIdle
    /\ AnalysisIdle
    /\ RunIdle
    /\ target_areas \in TargetAreaMaps
    /\ start_year \in min_year..(min_year + MaxSpan)
    /\ end_year \in start_year..(min_year + MaxSpan)
    /\ year = start_year
    /\ area_i = 0
    /\ census_requests = <<>>
    /\ all_population_data = <<>>
    /\ all_age_data = <<>>
    /\ population_df = EmptyFrame
    /\ age_df = EmptyFrame
    /\ bls_requests = <<>>
    /\ all_employment_data = <<>>
    /\ employment_df = EmptyFrame

NextFetch ==
    \/ CensusYear
    \/ CensusAreasDone
    \/ CensusSkipArea
    \/ CensusRequestOk
    \/ CensusRequestError
    \/ CensusReturn
    \/ BlsSetup
    \/ BlsYear
    \/ BlsBatchesDone
    \/ BlsBatchFailed
    \/ BlsBatchSucceeded
    \/ BlsReturn

SpecFetch == InitFetch /\ [][NextFetch]_vars

-----------------------------------------------------------------------------
(* Claims about the time-series fetchers, checked under SpecFetch *)

\* the positions of the target areas whose county FIPS is not the sentinel
ResolvedAreas == {k \in 1..Len(target_areas) : target_areas[k].value.fips_county # Fips000}

UnresolvedAreas == (1..Len(target_areas)) \ ResolvedAreas

ResolvedAreaSeq == SelectSeqBy([k \in 1..Len(target_areas) |-> k], ResolvedAreas)

\* the positions of the records of one (area, year)
RecordsOf(records, k, y) ==
    {n \in 1..Len(records) :
        /\ records[n].Year = y
        /\ records[n].City = target_areas[k].value.city
        /\ records[n].State = target_areas[k].value.state}

CensusRequestsOf(k, y) ==
    {n \in 1..Len(census_requests) :
        /\ census_requests[n].area = target_areas[k].key
        /\ census_requests[n].url.year = y}

\* C1: when the population/age fetcher has run its loops, every target area with a
\* county FIPS other than "000" has, for every year of start_year..end_year, exactly
\* one population record and exactly one age record, holding a value when the request
\* of that (area, year) succeeded and null when it failed; nothing else was appended
C1_OneRecordPerAreaYear ==
    pc \in {"census_return", "census_returned"} =>
        /\ \A k \in ResolvedAreas, y \in start_year..end_year :
            /\ Cardinality(RecordsOf(all_population_data, k, y)) = 1
            /\ Cardinality(RecordsOf(all_age_data, k, y)) = 1
            /\ Cardinality(CensusRequestsOf(k, y)) = 1
            /\ \A r \in CensusRequestsOf(k, y) :
                /\ \A n \in RecordsOf(all_population_data, k, y) :
                       census_requests[r].ok <=> all_population_data[n].Population # None
                /\ \A n \in RecordsOf(all_age_data, k, y) :
                       census_requests[r].ok <=> all_age_data[n].Median_Age # None
        /\ Len(all_population_data) = Cardinality(ResolvedAreas) * (end_year - start_year + 1)
        /\ Len(all_age_data) = Len(all_population_data)

\* a finished census run over two areas and two years in which a request failed and
\* another succeeded
C1_Witness ==
    /\ pc = "census_returned"
    /\ Cardinality(ResolvedAreas) >= 2
    /\ end_year > start_year
    /\ \E a, b \in 1..Len(census_requests) :
        a < b /\ ~census_requests[a].ok /\ census_requests[b].ok

\* the BLS requests of year y that carry both series of area k
BlsRequestsOf(k, y) ==
    LET area_info == target_areas[k].value
        code == area_info.fips_state \o area_info.fips_county
    IN {n \in 1..Len(bls_requests) :
           /\ bls_requests[n].startyear = y
           /\ UnempSeries(code) \in SeqToSet(bls_requests[n].seriesid)
           /\ EmpSeries(code) \in SeqToSet(bls_requests[n].seriesid)}

\* request n brought no value for area k: it raised, its status was not
\* REQUEST_SUCCEEDED, or the response held no data point of either series of the area
BlsFailedFor(n, k) ==
    LET area_info == target_areas[k].value
        code == area_info.fips_state \o area_info.fips_county
    IN \/ bls_requests[n].status # "REQUEST_SUCCEEDED"
       \/ \A m \in 1..Len(bls_requests[n].series) :
              \/ bls_requests[n].series[m].seriesID \notin {UnempSeries(code), EmpSeries(code)}
              \/ bls_requests[n].series[m].data = <<>>

\* C2 (as claimed): when the employment fetcher has returned, every (area, year) whose
\* request failed still has an employment record, with unemployment_rate and employed
\* both null
C2_FailedRequestLeavesNullRecord ==
    pc = "bls_returned" =>
        \A k \in ResolvedAreas, y \in start_year..end_year :
            \A n \in BlsRequestsOf(k, y) :
                BlsFailedFor(n, k) =>
                    \E m \in RecordsOf(all_employment_data, k, y) :
                        /\ all_employment_data[m].unemployment_rate = None
                        /\ all_employment_data[m].employed = None

\* C3: an area whose county FIPS is "000" never has its FIPS in a census URL or in a
\* BLS series id and never has a record, and once a fetcher has returned every other
\* area has been requested for every year
C3_UnresolvedAreaSkipped ==
    /\ \A k \in UnresolvedAreas :
        LET area_info == target_areas[k].value IN
        /\ \A n \in 1..Len(census_requests) :
               /\ census_requests[n].url.county # Fips000
               /\ census_requests[n].area # target_areas[k].key
        /\ \A n \in 1..Len(bls_requests) : \A m \in 1..Len(bls_requests[n].seriesid) :
               ~Contains(area_info.fips_state \o Fips000,
                         SubSeq(bls_requests[n].seriesid[m], 1, Len(LAUCN) + 5))
        /\ \A y \in start_year..end_year :
               /\ RecordsOf(all_population_data, k, y) = {}
               /\ RecordsOf(all_age_data, k, y) = {}
               /\ RecordsOf(all_employment_data, k, y) = {}
    /\ \A k \in ResolvedAreas, y \in start_year..end_year :
        /\ pc = "census_returned" => CensusRequestsOf(k, y) # {}
        /\ pc = "bls_returned" => BlsRequestsOf(k, y) # {}

\* a returned employment fetcher that skipped one area and got records for another
C3_Witness ==
    /\ pc = "bls_returned"
    /\ UnresolvedAreas # {}
    /\ ResolvedAreas # {}
    /\ \E k \in UnresolvedAreas : \E j \in ResolvedAreas : k < j
    /\ all_employment_data # <<>>

\* the census URLs of a complete run: every year, and within a year every resolved
\* area in map order
ExpectedCensusUrls ==
    LET n_areas == Len(ResolvedAreaSeq)
    IN [n \in 1..(n_areas * (end_year - start_year + 1)) |->
           [year |-> start_year + ((n - 1) \div n_areas),
            county |-> target_areas[ResolvedAreaSeq[((n - 1) % n_areas) + 1]].value.fips_county,
            state |-> target_areas[ResolvedAreaSeq[((n - 1) % n_areas) + 1]].value.fips_state]]

FetchReturned == {"census_returned", "bls_returned"}

\* the positions inside a fetcher's loops; at each of them a step is enabled (the
\* loop test, the skip, or the request with either outcome)
FetchRunning == {"census_year", "census_area", "census_return", "bls_setup", "bls_year",
                 "bls_batch", "bls_return"}

\* C4: whatever requests fail, a fetcher is never anywhere but in its loops until it
\* returns (no request's failure takes it out of them), and when it
\* has returned every request of the run was issued: the census URL of every
\* (year, resolved area) in loop order, and one BLS request per year carrying every
\* resolved area's series
C4_FailureDoesNotAbort ==
    /\ pc \in FetchRunning \cup FetchReturned
    /\ pc = "census_returned" =>
           [n \in 1..Len(census_requests) |-> census_requests[n].url] = ExpectedCensusUrls
    /\ pc = "bls_returned" /\ ResolvedAreas # {} =>
           /\ [n \in 1..Len(bls_requests) |-> bls_requests[n].startyear]
                  = [n \in 1..(end_year - start_year + 1) |-> start_year + n - 1]
           /\ \A k \in ResolvedAreas, y \in start_year..end_year : BlsRequestsOf(k, y) # {}

\* a returned employment fetcher whose first request raised and whose later request
\* brought records
C4_Witness ==
    /\ pc = "bls_returned"
    /\ Len(bls_requests) >= 2
    /\ bls_requests[1].status = "exception"
    /\ bls_requests[Len(bls_requests)].status = "REQUEST_SUCCEEDED"
    /\ all_employment_data # <<>>

-----------------------------------------------------------------------------
(* utils/area_converter.py: the lookup tables of convert_input_to_target_areas *)

\* state abbreviation -> the state's name in a city-data.com URL
state_mapping ==
    << [key |-> <<"A", "L">>, value |-> <<"A", "l", "a", "b", "a", "m", "a">>],
       [key |-> <<"A", "K">>, value |-> <<"A", "l", "a", "s", "k", "a">>],
       [key |-> <<"A", "Z">>, value |-> <<"A", "r", "i", "z", "o", "n", "a">>],
       [key |-> <<"A", "R">>, value |-> <<"A", "r", "k", "a", "n", "s", "a", "s">>],
       [key |-> <<"C", "A">>, value |-> <<"C", "a", "l", "i", "f", "o", "r", "n", "i", "a">>],
       [key |-> <<"C", "O">>, value |-> <<"C", "o", "l", "o", "r", "a", "d", "o">>],
       [key |-> <<"C", "T">>, value |-> <<"C", "o", "n", "n", "e", "c", "t", "i", "c", "u", "t">>],
       [key |-> <<"D", "E">>, value |-> <<"D", "e", "l", "a", "w", "a", "r", "e">>],
       [key |-> <<"F", "L">>, value |-> <<"F", "l", "o", "r", "i", "d", "a">>],
       [key |-> <<"G", "A">>, value |-> <<"G", "e", "o", "r", "g", "i", "a">>],
       [key |-> <<"H", "I">>, value |-> <<"H", "a", "w", "a", "i", "i">>],
       [key |-> <<"I", "D">>, value |-> <<"I", "d", "a", "h", "o">>],
       [key |-> <<"I", "L">>, value |-> <<"I", "l", "l", "i", "n", "o", "i", "s">>],
       [key |-> <<"I", "N">>, value |-> <<"I", "n", "d", "i", "a", "n", "a">>],
       [key |-> <<"I", "A">>, value |-> <<"I", "o", "w", "a">>],
       [key |-> <<"K", "S">>, value |-> <<"K", "a", "n", "s", "a", "s">>],
       [key |-> <<"K", "Y">>, value |-> <<"K", "e", "n", "t", "u", "c", "k", "y">>],
       [key |-> <<"L", "A">>, value |-> <<"L", "o", "u", "i", "s", "i", "a", "n", "a">>],
       [key |-> <<"M", "E">>, value |-> <<"M", "a", "i", "n", "e">>],
       [key |-> <<"M", "D">>, value |-> <<"M", "a", "r", "y", "l", "a", "n", "d">>],
       [key |-> <<"M", "A">>, value |-> <<"M", "a", "s", "s", "a", "c", "h", "u", "s", "e", "t", "t", "s">>],
       [key |-> <<"M", "I">>, value |-> <<"M", "i", "c", "h", "i", "g", "a", "n">>],
       [key |-> <<"M", "N">>, value |-> <<"M", "i", "n", "n", "e", "s", "o", "t", "a">>],
       [key |-> <<"M", "S">>, value |-> <<"M", "i", "s", "s", "i", "s", "s", "i", "p", "p", "i">>],
       [key |-> <<"M", "O">>, value |-> <<"M", "i", "s", "s", "o", "u", "r", "i">>],
       [key |-> <<"M", "T">>, value |-> <<"M", "o", "n", "t", "a", "n", "a">>],
       [key |-> <<"N", "E">>, value |-> <<"N", "e", "b", "r", "a", "s", "k", "a">>],
       [key |-> <<"N", "V">>, value |-> <<"N", "e", "v", "a", "d", "a">>],
       [key |-> <<"N", "H">>, value |-> <<"N", "e", "w", "-", "H", "a", "m", "p", "s", "h", "i", "r", "e">>],
       [key |-> <<"N", "J">>, value |-> <<"N", "e", "w", "-", "J", "e", "r", "s", "e", "y">>],
       [key |-> <<"N", "M">>, value |-> <<"N", "e", "w", "-", "M", "e", "x", "i", "c", "o">>],
       [key |-> <<"N", "Y">>, value |-> <<"N", "e", "w", "-", "Y", "o", "r", "k">>],
       [key |-> <<"N", "C">>, value |-> <<"N", "o", "r", "t", "h", "-", "C", "a", "r", "o", "l", "i", "n", "a">>],
       [key |-> <<"N", "D">>, value |-> <<"N", "o", "r", "t", "h", "-", "D", "a", "k", "o", "t", "a">>],
       [key |-> <<"O", "H">>, value |-> <<"O", "h", "i", "o">>],
       [key |-> <<"O", "K">>, value |-> <<"O", "k", "l", "a", "h", "o", "m", "a">>],
       [key |-> <<"O", "R">>, value |-> <<"O", "r", "e", "g", "o", "n">>],
       [key |-> <<"P", "A">>, value |-> <<"P", "e", "n", "n", "s", "y", "l", "v", "a", "n", "i", "a">>],
       [key |-> <<"R", "I">>, value |-> <<"R", "h", "o", "d", "e", "-", "I", "s", "l", "a", "n", "d">>],
       [key |-> <<"S", "C">>, value |-> <<"S", "o", "u", "t", "h", "-", "C", "a", "r", "o", "l", "i", "n", "a">>],
       [key |-> <<"S", "D">>, value |-> <<"S", "o", "u", "t", "h", "-", "D", "a", "k", "o", "t", "a">>],
       [key |-> <<"T", "N">>, value |-> <<"T", "e", "n", "n", "e", "s", "s", "e", "e">>],
       [key |-> <<"T", "X">>, value |-> <<"T", "e", "x", "a", "s">>],
       [key |-> <<"U", "T">>, value |-> <<"U", "t", "a", "h">>],
       [key |-> <<"V", "T">>, value |-> <<"V", "e", "r", "m", "o", "n", "t">>],
       [key |-> <<"V", "A">>, value |-> <<"V", "i", "r", "g", "i", "n", "i", "a">>],
       [key |-> <<"W", "A">>, value |-> <<"W", "a", "s", "h", "i", "n", "g", "t", "o", "n">>],
       [key |-> <<"W", "V">>, value |-> <<"W", "e", "s", "t", "-", "V", "i", "r", "g", "i", "n", "i", "a">>],
       [key |-> <<"W", "I">>, value |-> <<"W", "i", "s", "c", "o", "n", "s", "i", "n">>],
       [key |-> <<"W", "Y">>, value |-> <<"W", "y", "o", "m", "i", "n", "g">>],
       [key |-> <<"D", "C">>, value |-> <<"D", "i", "s", "t", "r", "i", "c", "t", "-", "o", "f", "-", "C", "o", "l", "u", "m", "b", "i", "a">>] >>

\* state abbreviation -> state FIPS code
state_fips ==
    << [key |-> <<"A", "L">>, value |-> <<"0", "1">>],
       [key |-> <<"A", "K">>, value |-> <<"0", "2">>],
       [key |-> <<"A", "Z">>, value |-> <<"0", "4">>],
       [key |-> <<"A", "R">>, value |-> <<"0", "5">>],
       [key |-> <<"C", "A">>, value |-> <<"0", "6">>],
       [key |-> <<"C", "O">>, value |-> <<"0", "8">>],
       [key |-> <<"C", "T">>, value |-> <<"0", "9">>],
       [key |-> <<"D", "E">>, value |-> <<"1", "0">>],
       [key |-> <<"F", "L">>, value |-> <<"1", "2">>],
       [key |-> <<"G", "A">>, value |-> <<"1", "3">>],
       [key |-> <<"H", "I">>, value |-> <<"1", "5">>],
       [key |-> <<"I", "D">>, value |-> <<"1", "6">>],
       [key |-> <<"I", "L">>, value |-> <<"1", "7">>],
       [key |-> <<"I", "N">>, value |-> <<"1", "8">>],
       [key |-> <<"I", "A">>, value |-> <<"1", "9">>],
       [key |-> <<"K", "S">>, value |-> <<"2", "0">>],
       [key |-> <<"K", "Y">>, value |-> <<"2", "1">>],
       [key |-> <<"L", "A">>, value |-> <<"2", "2">>],
       [key |-> <<"M", "E">>, value |-> <<"2", "3">>],
       [key |-> <<"M", "D">>, value |-> <<"2", "4">>],
       [key |-> <<"M", "A">>, value |-> <<"2", "5">>],
       [key |-> <<"M", "I">>, value |-> <<"2", "6">>],
       [key |-> <<"M", "N">>, value |-> <<"2", "7">>],
       [key |-> <<"M", "S">>, value |-> <<"2", "8">>],
       [key |-> <<"M", "O">>, value |-> <<"2", "9">>],
       [key |-> <<"M", "T">>, value |-> <<"3", "0">>],
       [key |-> <<"N", "E">>, value |-> <<"3", "1">>],
       [key |-> <<"N", "V">>, value |-> <<"3", "2">>],
       [key |-> <<"N", "H">>, value |-> <<"3", "3">>],
       [key |-> <<"N", "J">>, value |-> <<"3", "4">>],
       [key |-> <<"N", "M">>, value |-> <<"3", "5">>],
       [key |-> <<"N", "Y">>, value |-> <<"3", "6">>],
       [key |-> <<"N", "C">>, value |-> <<"3", "7">>],
       [key |-> <<"N", "D">>, value |-> <<"3", "8">>],
       [key |-> <<"O", "H">>, value |-> <<"3", "9">>],
       [key |-> <<"O", "K">>, value |-> <<"4", "0">>],
       [key |-> <<"O", "R">>, value |-> <<"4", "1">>],
       [key |-> <<"P", "A">>, value |-> <<"4", "2">>],
       [key |-> <<"R", "I">>, value |-> <<"4", "4">>],
       [key |-> <<"S", "C">>, value |-> <<"4", "5">>],
       [key |-> <<"S", "D">>, value |-> <<"4", "6">>],
       [key |-> <<"T", "N">>, value |-> <<"4", "7">>],
       [key |-> <<"T", "X">>, value |-> <<"4", "8">>],
       [key |-> <<"U", "T">>, value |-> <<"4", "9">>],
       [key |-> <<"V", "T">>, value |-> <<"5", "0">>],
       [key |-> <<"V", "A">>, value |-> <<"5", "1">>],
       [key |-> <<"W", "A">>, value |-> <<"5", "3">>],
       [key |-> <<"W", "V">>, value |-> <<"5", "4">>],
       [key |-> <<"W", "I">>, value |-> <<"5", "5">>],
       [key |-> <<"W", "Y">>, value |-> <<"5", "6">>],
       [key |-> <<"D", "C">>, value |-> <<"1", "1">>] >>

-----------------------------------------------------------------------------
(* utils/area_converter.py: what the directory and the county list serve *)

Jonesboro == <<"J", "o", "n", "e", "s", "b", "o", "r", "o">>

SanJuan == <<"S", "a", "n", " ", "J", "u", "a", "n">>

GA == <<"G", "A">>

PR == <<"P", "R">>

ClaytonCounty == <<"C", "l", "a", "y", "t", "o", "n", " ", "C", "o", "u", "n", "t", "y">>

Fips13 == <<"1", "3">>

Fips00 == <<"0", "0">>

Fips061 == <<"0", "6", "1">>

Fips063 == <<"0", "6", "3">>

NameHillsborough == <<"H", "i", "l", "l", "s", "b", "o", "r", "o", "u", "g", "h", " ",
                      "C", "o", "u", "n", "t", "y", ",", " ", "F", "l", "o", "r", "i", "d", "a">>

NameOrange == <<"O", "r", "a", "n", "g", "e", " ", "C", "o", "u", "n", "t", "y", ",", " ",
                "F", "l", "o", "r", "i", "d", "a">>

NameClay == <<"C", "l", "a", "y", " ", "C", "o", "u", "n", "t", "y", ",", " ",
              "G", "e", "o", "r", "g", "i", "a">>

NameClayton == <<"C", "l", "a", "y", "t", "o", "n", " ", "C", "o", "u", "n", "t", "y", ",", " ",
                 "G", "e", "o", "r", "g", "i", "a">>

CountySuffix == <<" ", "C", "o", "u", "n", "t", "y">>

MsgCityNotFound == <<"C", "i", "t", "y", " ", "n", "o", "t", " ", "f", "o", "u", "n", "d", ":", " ">>

MsgHttpError == <<"H", "T", "T", "P", " ", "E", "r", "r", "o", "r", " ", "f", "o", "r", " ">>

MsgErrorScraping == <<"E", "r", "r", "o", "r", " ", "s", "c", "r", "a", "p", "i", "n", "g", " ">>

MsgNoCountyInfo == <<"C", "o", "u", "l", "d", " ", "n", "o", "t", " ", "f", "i", "n", "d", " ",
                     "c", "o", "u", "n", "t", "y", " ", "i", "n", "f", "o", " ", "f", "o", "r", " ">>

MsgNoValidCities == <<"N", "o", " ", "v", "a", "l", "i", "d", " ", "c", "i", "t", "i", "e", "s", " ",
                      "c", "o", "u", "l", "d", " ", "b", "e", " ",
                      "p", "r", "o", "c", "e", "s", "s", "e", "d">>

\* the rows a user can enter: three cities of two supported states and one city of a
\* code that is not in the tables
InputRows ==
    { [City |-> Orlando, State |-> FL], [City |-> Tampa, State |-> FL],
      [City |-> Jonesboro, State |-> GA], [City |-> SanJuan, State |-> PR] }

\* input_df: at least one row, at most MaxAreas
InputFrames == UNION {[1..n -> InputRows] : n \in 1..MaxAreas}

\* the county the city's page names in the third breadcrumb entry
BreadcrumbCounties(city, state) ==
    {f.county : f \in {g \in SeqToSet(CityFacts) : g.city = city /\ g.state = state}}
    \cup (IF city = Jonesboro /\ state = GA THEN {ClaytonCounty} ELSE {})

\* the rows [NAME, state, county] of the county list of a state
FullCountyList(fips) ==
    IF fips = Fips12
    THEN << <<NameHillsborough, Fips12, Fips057>>, <<NameOrange, Fips12, Fips095>> >>
    ELSE IF fips = Fips13
         THEN << <<NameClay, Fips13, Fips061>>, <<NameClayton, Fips13, Fips063>> >>
         ELSE <<>>

\* what the county-list request brings: None when it raises (HTTP error, bad JSON),
\* else the rows served, which may lack rows of the full list or hold the NAME column only
CountyListResponses(fips) ==
    LET full == FullCountyList(fips)
    IN {None} \cup {Some(SelectSeqBy(full, keep)) : keep \in SUBSET SeqToSet(full)}
              \cup {Some([i \in 1..Len(full) |-> <<full[i][1]>>])}

-----------------------------------------------------------------------------
(* utils/area_converter.py: get_county_fips_code *)

\* county_name.replace(' County', '').strip()
CleanCountyName(county_name) == Strip(Replace(county_name, CountySuffix, <<>>))

\* name.split(',')[0].replace(' County', '').strip()
CleanCandidateName(name) == Strip(Replace(Split(name, <<",">>)[1], CountySuffix, <<>>))

\* the loop's test of one candidate: the exact match, else the partial match
CandidateMatches(county_name, clean_name) ==
    \/ Lower(county_name) = Lower(clean_name)
    \/ Contains(Lower(county_name), Lower(clean_name))
    \/ Contains(Lower(clean_name), Lower(county_name))

\* the loop over the candidates: the code of the first one that passes the test, '000'
\* after the loop; None when county[2] raises on a row that has no third column
RECURSIVE FirstMatchingCode(_, _)
FirstMatchingCode(county_name, counties) ==
    IF counties = <<>> THEN Some(Fips000)
    ELSE IF CandidateMatches(county_name, CleanCandidateName(Head(counties)[1]))
         THEN IF Len(Head(counties)) >= 3 THEN Some(Head(counties)[3]) ELSE None
         ELSE FirstMatchingCode(county_name, Tail(counties))

\* a lookup whose failure branches return the empty string
MutLookupFailureReturnsEmpty(county_name, response) ==
    IF response = None THEN <<>>
    ELSE LET found == FirstMatchingCode(CleanCountyName(county_name), response[1])
         IN IF found = None \/ found = Some(Fips000) THEN <<>> ELSE found[1]

\* get_county_fips_code: '000' when the request or the loop raises or nothing matches
GetCountyFipsCode(county_name, response) ==
    IF response = None THEN Fips000
    ELSE LET found == FirstMatchingCode(CleanCountyName(county_name), response[1])
         IN IF found = None THEN Fips000 ELSE found[1]

-----------------------------------------------------------------------------
(* utils/area_converter.py: convert_input_to_target_areas *)

\* f"{city}, {state}"
CityState(city, state) == city \o <<",", " ">> \o state

\* url = f"https://www.city-data.com/city/{city_url_name}-{state_name}.html"
CityPageUrl(city, state) ==
    Replace(city, <<" ">>, <<"-">>) \o <<"-">> \o DictGet(state_mapping, state)

\* the ways the city page fails to give a county
PageFailures == {"404", "http_error", "exception", "no_breadcrumb", "short_breadcrumb",
                 "no_county_link"}

\* str(e) of the exception caught around the page request
ExceptionText(outcome) ==
    IF outcome = "http_error" THEN <<"5", "0", "0">>
    ELSE IF outcome = "exception" THEN <<"t", "i", "m", "e", "o", "u", "t">>
    ELSE <<>>

\* one message for every failed page
MutOneMessageForAll(outcome, city, state) ==
    MsgErrorScraping \o CityState(city, state) \o <<":", " ">> \o ExceptionText(outcome)

\* the message of the ValueError the resolver raises for a failed page
ResolveErrorMessage(outcome, city, state) ==
    IF outcome = "404" THEN MsgCityNotFound \o CityState(city, state)
    ELSE IF outcome = "http_error"
         THEN MsgHttpError \o CityState(city, state) \o <<":", " ">> \o ExceptionText(outcome)
    ELSE IF outcome = "exception"
         THEN MsgErrorScraping \o CityState(city, state) \o <<":", " ">>
              \o ExceptionText(outcome)
    ELSE MsgErrorScraping \o CityState(city, state) \o <<":", " ">>
         \o MsgNoCountyInfo \o CityState(city, state)

\* a row whose state is not in state_mapping: a message is printed, continue
ResolveUnknownState ==
    /\ pc = "resolve_row"
    /\ row_i <= Len(input_df)
    /\ ~DictHas(state_mapping, input_df[row_i].State)
    /\ row_i' = row_i + 1
    /\ UNCHANGED <<pc, input_df, start_year, end_year, target_areas, county_mapping,
                   resolver_requests, error, fetchVars, crimeVars, reconcileVars, parseVars, analysisVars, runVars>>

\* the city page cannot be fetched or holds no county: ValueError
ResolvePageFails ==
    /\ pc = "resolve_row"
    /\ row_i <= Len(input_df)
    /\ DictHas(state_mapping, input_df[row_i].State)
    /\ \E outcome \in PageFailures :
        LET city == input_df[row_i].City
            state == input_df[row_i].State
        IN /\ resolver_requests' = Append(resolver_requests,
                  [kind |-> "city_page", area |-> AreaId(city, state),
                   url |-> CityPageUrl(city, state), outcome |-> outcome,
                   county_name |-> <<>>, response |-> None])
           /\ error' = Some(ResolveErrorMessage(outcome, city, state))
    /\ pc' = "resolve_raised"
    /\ UNCHANGED <<input_df, start_year, end_year, target_areas, row_i, county_mapping,
                   fetchVars, crimeVars, reconcileVars, parseVars, analysisVars, runVars>>

\* the page names a county: its FIPS code is looked up and the area is stored
ResolveCounty ==
    /\ pc = "resolve_row"
    /\ row_i <= Len(input_df)
    /\ DictHas(state_mapping, input_df[row_i].State)
    /\ LET city == input_df[row_i].City
           state == input_df[row_i].State
           state_fips_code == IF DictHas(state_fips, state)
                              THEN DictGet(state_fips, state) ELSE Fips00
       IN \E county_name \in BreadcrumbCounties(city, state),
             response \in CountyListResponses(state_fips_code) :
            /\ resolver_requests' = resolver_requests \o
                   << [kind |-> "city_page", area |-> AreaId(city, state),
                       url |-> CityPageUrl(city, state), outcome |-> "ok",
                       county_name |-> county_name, response |-> None],
                      [kind |-> "county_list", area |-> AreaId(city, state),
                       url |-> state_fips_code, outcome |-> "ok",
                       county_name |-> county_name, response |-> response] >>
            /\ target_areas' = DictSet(target_areas, AreaId(city, state),
                   AreaInfo(city, state, county_name, state_fips_code,
                            GetCountyFipsCode(county_name, response)).value)
            /\ county_mapping' = DictSet(county_mapping, county_name, city)
    /\ row_i' = row_i + 1
    /\ UNCHANGED <<pc, input_df, start_year, end_year, error, fetchVars, crimeVars,
                   reconcileVars, parseVars, analysisVars, runVars>>

\* after the loop: with no area stored a ValueError, else both maps are returned
ResolveFinish ==
    /\ pc = "resolve_row"
    /\ row_i > Len(input_df)
    /\ IF target_areas = <<>>
       THEN pc' = "resolve_raised" /\ error' = Some(MsgNoValidCities)
       ELSE pc' = "resolve_returned" /\ UNCHANGED error
    /\ UNCHANGED <<input_df, start_year, end_year, target_areas, row_i, county_mapping,
                   resolver_requests, fetchVars, crimeVars, reconcileVars, parseVars, analysisVars, runVars>>

InitResolve ==
    /\ pc = "resolve_row"
    /\ input_df \in InputFrames
    /\ start_year = min_year
    /\ end_year = min_year
    /\ target_areas = <<>>
    /\ row_i = 1
    /\ county_mapping = <<>>
    /\ resolver_requests = <<>>
    /\ error = None
    /\ FetchIdle
    /\ population_df = EmptyFrame
    /\ age_df = EmptyFrame
    /\ employment_df = EmptyFrame
    /\ CrimeIdle
    /\ ReconcileIdle
    /\ ParseIdle
    /\ AnalysisIdle
    /\ RunIdle

NextResolve ==
    \/ ResolveUnknownState
    \/ ResolvePageFails
    \/ ResolveCounty
    \/ ResolveFinish

SpecResolve == InitResolve /\ [][NextResolve]_vars

-----------------------------------------------------------------------------
(* pandas: the frame operations analyze_and_visualize_data uses *)

\* n missing values
NaNs(n) == [j \in 1..n |-> None]

\* df[col]
Column(df, col) == [k \in 1..Len(df.rows) |-> df.rows[k][ColIndex(df, col)]]

\* df[cols]
Project(df, cols) ==
    DataFrame(cols, [k \in 1..Len(df.rows) |->
                        [j \in 1..Len(cols) |-> df.rows[k][ColIndex(df, cols[j])]]])

\* the columns a merge takes from its right frame
NonKeyColumns(df, on) == SelectSeq(df.columns, LAMBDA c : c # on)

\* the rows of a frame with a given key
RowsWithKey(df, on, key) == SelectSeq(df.rows, LAMBDA r : r[ColIndex(df, on)] = key)

\* the rows a merge makes of one left row and the right rows of its key
JoinedRows(l, right, matches, on) ==
    LET rcols == NonKeyColumns(right, on)
    IN [k \in 1..Len(matches) |->
           l \o [j \in 1..Len(rcols) |-> matches[k][ColIndex(right, rcols[j])]]]

\* a merge that keeps only the left rows whose key the right frame has
MutInnerMerge(left, right, on) ==
    DataFrame(left.columns \o NonKeyColumns(right, on),
              Flatten([i \in 1..Len(left.rows) |->
                  JoinedRows(left.rows[i], right,
                             RowsWithKey(right, on, left.rows[i][ColIndex(left, on)]), on)]))

\* left.merge(right, on=on, how='left'): the left rows in their order, each once per
\* right row of its key, and once with missing values when the right has none
LeftMerge(left, right, on) ==
    LET rcols == NonKeyColumns(right, on)
        Joined(l) ==
            LET matches == RowsWithKey(right, on, l[ColIndex(left, on)])
            IN IF matches = <<>> THEN <<l \o NaNs(Len(rcols))>>
               ELSE JoinedRows(l, right, matches, on)
    IN DataFrame(left.columns \o rcols,
                 Flatten([i \in 1..Len(left.rows) |-> Joined(left.rows[i])]))

\* left.merge(right, on=on, how='outer'): the union of the keys in sorted order, for
\* each key the left rows times the right rows, missing values on the side without it
OuterMerge(left, right, on) ==
    LET rcols == NonKeyColumns(right, on)
        keys == SortedStrings(SeqToSet(Column(left, on)) \cup SeqToSet(Column(right, on)))
        RightOnly(key) == [j \in 1..Len(left.columns) |->
                              IF left.columns[j] = on THEN key ELSE None]
        ForKey(key) ==
            LET ls == RowsWithKey(left, on, key)
                rs == RowsWithKey(right, on, key)
            IN IF rs = <<>> THEN [i \in 1..Len(ls) |-> ls[i] \o NaNs(Len(rcols))]
               ELSE IF ls = <<>> THEN JoinedRows(RightOnly(key), right, rs, on)
               ELSE Flatten([i \in 1..Len(ls) |-> JoinedRows(ls[i], right, rs, on)])
    IN DataFrame(left.columns \o rcols, Flatten([k \in 1..Len(keys) |-> ForKey(keys[k])]))

\* df.dropna(): the rows without a missing value
DropNa(df) ==
    DataFrame(df.columns,
              SelectSeq(df.rows, LAMBDA r : \A j \in 1..Len(r) : r[j] # None))

-----------------------------------------------------------------------------
(* analysis/data_analysis.py: the tables analyze_and_visualize_data is called with *)

CrimeIndexType == <<"C", "r", "i", "m", "e", " ", "I", "n", "d", "e", "x">>

Murders == <<"M", "u", "r", "d", "e", "r", "s">>

CountSuffix == <<"_", "c", "o", "u", "n", "t">>

Year2022 == <<"2", "0", "2", "2">>

Year2023 == <<"2", "0", "2", "3">>

\* the text of a count cell as parse_crime_table formats it
MurdersText == <<"1", "2", " ", "(", "4", ".", "1", ")">>

AR == <<"A", "R">>

CraigheadCounty == <<"C", "r", "a", "i", "g", "h", "e", "a", "d", " ", "C", "o", "u", "n", "t", "y">>

Fips05 == <<"0", "5">>

Fips031 == <<"0", "3", "1">>

\* a map of two cities of one name in two states: Jonesboro, GA (Clayton County) and
\* Jonesboro, AR (Craighead County), in either order of the input
HomonymMaps ==
    LET ga == AreaInfo(Jonesboro, GA, ClaytonCounty, Fips13, Fips063)
        ar == AreaInfo(Jonesboro, AR, CraigheadCounty, Fips05, Fips031)
    IN {<<ga, ar>>, <<ar, ga>>}

\* the target-area maps analyze_and_visualize_data is called with
ReconcileAreaMaps == TargetAreaMaps \cup HomonymMaps

\* the areas of a map that have a county FIPS code, in the map's order
FetchedAreas(areas) == SelectSeq(areas, LAMBDA e : e.value.fips_county # Fips000)

\* latest_population and latest_age of get_census_data: one row per fetched area, both
\* values missing for the areas whose request failed
CensusFrames(areas) ==
    LET got == FetchedAreas(areas)
        Rows(failed, value) ==
            [k \in 1..Len(got) |->
                <<got[k].value.county, IF k \in failed THEN None ELSE Some(value)>>]
    IN {[population |-> DataFrame(<<ColCounty, ColPopulation>>, Rows(failed, p)),
         age |-> DataFrame(<<ColCounty, ColMedianAge>>, Rows(failed, a))] :
            failed \in {{}, {1}, 1..Len(got)}, p \in Populations, a \in MedianAges}

\* the counties of a sequence of areas, each once, in order of first appearance
RECURSIVE DistinctCounties(_)
DistinctCounties(areas) ==
    IF areas = <<>> THEN <<>>
    ELSE LET rest == DistinctCounties(SubSeq(areas, 1, Len(areas) - 1))
             county == areas[Len(areas)].value.county
         IN IF county \in SeqToSet(rest) THEN rest ELSE Append(rest, county)

\* what the caller passes for employment: None, the empty frame, or latest_employment
\* of get_bls_data with a row for every county, or for one county only
EmploymentFrames(areas) ==
    LET counties == DistinctCounties(FetchedAreas(areas))
        Frame(keep, r, e) ==
            LET kept == SelectSeqBy(counties, keep)
            IN DataFrame(<<ColCounty, ColUnemploymentRate, ColEmployed>>,
                         [k \in 1..Len(kept) |-> <<kept[k], Some(r), Some(e)>>])
    IN {None, EmptyFrame}
       \cup ({Frame(keep, r, e) :
                  keep \in {SeqToSet(counties)} \cup {{c} : c \in SeqToSet(counties)},
                  r \in UnemploymentRates, e \in EmployedLevels}
             \ {DataFrame(<<ColCounty, ColUnemploymentRate, ColEmployed>>, <<>>)})

\* the directory's display names of the cities of a map, each once, in the map's order
RECURSIVE DisplayNames(_)
DisplayNames(areas) ==
    IF areas = <<>> THEN <<>>
    ELSE LET rest == DisplayNames(SubSeq(areas, 1, Len(areas) - 1))
             last == areas[Len(areas)].value
             name == last.city \o <<",", " ">> \o last.state
         IN IF name \in SeqToSet(rest) THEN rest ELSE Append(rest, name)

\* the decimal digit of a number below ten
DigitOf(k) == <<"0", "1", "2", "3", "4", "5", "6", "7", "8", "9">>[k + 1]

\* the text of a Crime Index cell of the city at position k for a year ending in y
IndexText(k, y) == <<"3", DigitOf(y), DigitOf(k), ".", "5">>

\* the shapes of a crime table: as parse_crime_table builds it, with the year text as
\* column names and text cells; and with <year>_count columns and numeric cells, the
\* rightmost column not the latest, optionally with a missing latest value or with no
\* Crime Index row
CrimeShapes == {"scraper", "count", "count_missing", "no_index"}

\* a crime table of a shape with a Murders row and a Crime Index row per city
CrimeTable(cities, shape) ==
    IF shape = "scraper"
    THEN DataFrame(<<ColCity, ColCrimeType, Year2022, Year2023>>,
             Flatten([k \in 1..Len(cities) |->
                 << <<cities[k], Murders, Some(MurdersText), Some(MurdersText)>>,
                    <<cities[k], CrimeIndexType, Some(IndexText(k, 2)),
                      Some(IndexText(k, 3))>> >>]))
    ELSE DataFrame(<<ColCity, ColCrimeType, Year2023 \o CountSuffix, Year2022 \o CountSuffix>>,
             Flatten([k \in 1..Len(cities) |->
                 << <<cities[k], Murders, Some(12), Some(11)>> >> \o
                 (IF shape = "no_index" THEN <<>>
                  ELSE << <<cities[k], CrimeIndexType,
                            IF shape = "count_missing" /\ k = 1 THEN None ELSE Some(330 + k),
                            Some(320 + k)>> >>)]))

\* what the caller passes for crime: None, the empty frame, or a table of every city
\* of the map or of one of them
CrimeTables(areas) ==
    LET names == DisplayNames(areas)
    IN {None, EmptyFrame}
       \cup {CrimeTable(SelectSeqBy(names, keep), shape) :
                keep \in {SeqToSet(names)} \cup {{c} : c \in SeqToSet(names)},
                shape \in CrimeShapes}

-----------------------------------------------------------------------------
(* analysis/data_analysis.py: analyze_and_visualize_data *)

\* demographic_data after the population block
AddPopulation(population) ==
    IF ~IsEmpty(population) THEN Project(population, <<ColCounty, ColPopulation>>)
    ELSE EmptyFrame

\* demographic_data after the age block
AddAge(demographic, age) ==
    IF ~IsEmpty(age)
    THEN IF IsEmpty(demographic) THEN Project(age, <<ColCounty, ColMedianAge>>)
         ELSE OuterMerge(demographic, age, ColCounty)
    ELSE demographic

\* an employment block that adds its columns also when there is no employment table
MutEmploymentColumnsAlways(demographic, employment) ==
    IF employment # None /\ ~IsEmpty(employment)
    THEN IF IsEmpty(demographic) THEN employment
         ELSE OuterMerge(demographic, employment, ColCounty)
    ELSE DataFrame(demographic.columns \o <<ColUnemploymentRate, ColEmployed>>,
                   [k \in 1..Len(demographic.rows) |-> demographic.rows[k] \o NaNs(2)])

\* demographic_data after the employment block
AddEmployment(demographic, employment) ==
    IF employment # None /\ ~IsEmpty(employment)
    THEN IF IsEmpty(demographic) THEN employment
         ELSE OuterMerge(demographic, employment, ColCounty)
    ELSE demographic

\* crime_df[crime_df['Crime_Type'] == 'Crime Index']
CrimeIndexData(crime) ==
    DataFrame(crime.columns,
              SelectSeq(crime.rows, LAMBDA r : r[ColIndex(crime, ColCrimeType)] = CrimeIndexType))

\* year_columns: the columns recognized as year columns
YearColumns(df) ==
    SelectSeq(df.columns, LAMBDA col : EndsWith(col, CountSuffix) /\ col # ColCrimeType)

\* sorted(year_columns)[-1]
LatestYearCol(year_columns) ==
    LET ordered == SortedStrings(SeqToSet(year_columns))
    IN ordered[Len(ordered)]

\* city_to_county_mapping: city -> county over the areas in the map's order
RECURSIVE CityToCountyMapping(_)
CityToCountyMapping(areas) ==
    IF areas = <<>> THEN <<>>
    ELSE LET last == areas[Len(areas)].value
         IN DictSet(CityToCountyMapping(SubSeq(areas, 1, Len(areas) - 1)),
                    last.city, last.county)

\* the lambda of the map: the county of the first city that contains x or is contained
\* in it, ignoring case; x itself when there is none
RECURSIVE MapCityToCounty(_, _)
MapCityToCounty(x, mapping) ==
    IF mapping = <<>> THEN x
    ELSE IF \/ Contains(Lower(Head(mapping).key), Lower(x))
            \/ Contains(Lower(x), Lower(Head(mapping).key))
         THEN Head(mapping).value
         ELSE MapCityToCounty(x, Tail(mapping))

\* crime_summary: City, Crime_Index and County of the Crime Index rows with a value in
\* the latest year column; the frame without columns when the block does not build it.
\* The resolver never returns an empty map, so a map without entries is the caller's
\* None
CrimeSummary(crime, areas) ==
    IF crime = None \/ areas = None THEN EmptyFrame
    ELSE IF IsEmpty(crime) THEN EmptyFrame
    ELSE IF IsEmpty(CrimeIndexData(crime)) THEN EmptyFrame
    ELSE IF YearColumns(CrimeIndexData(crime)) = <<>> THEN EmptyFrame
    ELSE LET latest_year_col == LatestYearCol(YearColumns(CrimeIndexData(crime)))
             kept == DropNa(Project(CrimeIndexData(crime), <<ColCity, latest_year_col>>))
             mapping == CityToCountyMapping(areas)
         IN DataFrame(<<ColCity, ColCrimeIndex, ColCounty>>,
                      [k \in 1..Len(kept.rows) |->
                          kept.rows[k] \o <<MapCityToCounty(kept.rows[k][1], mapping)>>])

\* a crime block that joins a Crime_Index column also when no summary was built
MutJoinCrimeAlwaysAddsColumn(demographic, summary) ==
    LET right == IF summary.columns = <<>> THEN DataFrame(<<ColCounty, ColCrimeIndex>>, <<>>)
                 ELSE Project(summary, <<ColCounty, ColCrimeIndex>>)
    IN IF ~IsEmpty(demographic) THEN LeftMerge(demographic, right, ColCounty) ELSE right

\* demographic_data after the crime block
JoinCrime(demographic, summary) ==
    IF summary.columns = <<>> THEN demographic
    ELSE IF ~IsEmpty(demographic)
         THEN LeftMerge(demographic, Project(summary, <<ColCounty, ColCrimeIndex>>), ColCounty)
         ELSE Project(summary, <<ColCounty, ColCrimeIndex>>)

\* what a step of analyze_and_visualize_data leaves alone
reconcileFrame == <<input_df, start_year, end_year, target_areas, resolveVars, fetchVars,
                    crimeVars, parseVars, analysisVars, runVars>>

ReconcilePopulation ==
    /\ pc = "reconcile_population"
    /\ demographic_data' = AddPopulation(population_df)
    /\ pc' = "reconcile_age"
    /\ UNCHANGED <<reconcileFrame, crime_summary>>

ReconcileAge ==
    /\ pc = "reconcile_age"
    /\ demographic_data' = AddAge(demographic_data, age_df)
    /\ pc' = "reconcile_employment"
    /\ UNCHANGED <<reconcileFrame, crime_summary>>

ReconcileEmployment ==
    /\ pc = "reconcile_employment"
    /\ demographic_data' = AddEmployment(demographic_data, employment_df)
    /\ pc' = "reconcile_crime"
    /\ UNCHANGED <<reconcileFrame, crime_summary>>

ReconcileCrime ==
    /\ pc = "reconcile_crime"
    /\ crime_summary' = CrimeSummary(crime_df, target_areas)
    /\ demographic_data' = JoinCrime(demographic_data, crime_summary')
    /\ pc' = "reconcile_report"
    /\ UNCHANGED reconcileFrame

\* the table is saved, the correlations and the report are written from it and it is
\* returned; every value the report formats is a number
ReconcileReport ==
    /\ pc = "reconcile_report"
    /\ pc' = "reconcile_returned"
    /\ UNCHANGED <<reconcileFrame, reconcileVars>>

InitReconcile ==
    /\ pc = "reconcile_population"
    /\ input_df = <<>>
    /\ start_year = min_year
    /\ end_year = min_year
    /\ ResolveIdle
    /\ FetchIdle
    /\ \E areas \in ReconcileAreaMaps :
          /\ target_areas \in {areas, None}
          /\ \E census \in CensusFrames(areas) :
                /\ population_df = census.population
                /\ age_df = census.age
          /\ employment_df \in EmploymentFrames(areas)
          /\ crime_df \in CrimeTables(areas)
    /\ state_i = 0
    /\ filtered_cities = <<>>
    /\ city_i = 0
    /\ crime_requests = <<>>
    /\ all_crime_data = <<>>
    /\ ReconcileIdle
    /\ ParseIdle
    /\ AnalysisIdle
    /\ RunIdle

NextReconcile ==
    \/ ReconcilePopulation
    \/ ReconcileAge
    \/ ReconcileEmployment
    \/ ReconcileCrime
    \/ ReconcileReport

SpecReconcile == InitReconcile /\ [][NextReconcile]_vars

-----------------------------------------------------------------------------
(* data_collection/crime_data.py: parse_crime_table *)

CityDataIndexType == <<"C", "i", "t", "y", "-", "D", "a", "t", "a", ".", "c", "o", "m", " ", "c", "r", "i", "m", "e", " ", "i", "n", "d", "e", "x">>

NotFound == <<"N", "o", "t", " ", "F", "o", "u", "n", "d">>

HeaderType == <<"T", "y", "p", "e">>

\* int(s) of a string of decimal digits
RECURSIVE ParseInt(_)
ParseInt(digits) ==
    IF digits = <<>> THEN 0
    ELSE ParseInt(SubSeq(digits, 1, Len(digits) - 1)) * 10
         + (CHOOSE d \in 0..9 : DigitOf(d) = digits[Len(digits)])

\* str(n) of a natural number
RECURSIVE IntToStr(_)
IntToStr(n) == IF n < 10 THEN <<DigitOf(n)>> ELSE IntToStr(n \div 10) \o <<DigitOf(n % 10)>>

\* digits with a comma before every group of three from the right
RECURSIVE GroupThousands(_)
GroupThousands(digits) ==
    IF Len(digits) <= 3 THEN digits
    ELSE GroupThousands(SubSeq(digits, 1, Len(digits) - 3)) \o <<",">>
         \o SubSeq(digits, Len(digits) - 2, Len(digits))

\* f"{n:,}"
FormatThousands(n) == GroupThousands(IntToStr(n))

\* the longest prefix of s made of the given characters
RECURSIVE LeadingRun(_, _)
LeadingRun(s, chars) ==
    IF s # <<>> /\ Head(s) \in chars THEN <<Head(s)>> \o LeadingRun(Tail(s), chars)
    ELSE <<>>

\* raw_count: the leading run of digits and commas without its commas, as a number;
\* 0 when there is no such run or it holds no digit
RawCount(cell_text) ==
    LET count_str == Replace(LeadingRun(cell_text, DigitChars \cup {","}), <<",">>, <<>>)
    IN IF count_str = <<>> THEN 0 ELSE ParseInt(count_str)

\* rate_per_100k: what re.search(r'\(([^)]+)\)') captures, '' when it finds nothing
RatePer100k(cell_text) ==
    LET opens == {i \in 1..Len(cell_text) :
                     /\ cell_text[i] = "("
                     /\ \E j \in (i + 2)..Len(cell_text) :
                           /\ cell_text[j] = ")"
                           /\ \A m \in (i + 1)..(j - 1) : cell_text[m] # ")"}
    IN IF opens = {} THEN <<>>
       ELSE LET i == CHOOSE o \in opens : \A other \in opens : o <= other
                j == CHOOSE c \in (i + 2)..Len(cell_text) :
                         /\ cell_text[c] = ")"
                         /\ \A m \in (i + 1)..(c - 1) : cell_text[m] # ")"
            IN SubSeq(cell_text, i + 1, j - 1)

\* the cell text stored as it stands
MutStoresCellText(cell) ==
    LET cell_text == Strip(cell)
    IN IF cell_text = <<>> THEN <<"0">> ELSE cell_text

\* the value stored for a body cell: 'count (rate)', 'count', or '0' for an empty cell
FormatCountCell(cell) ==
    LET cell_text == Strip(cell)
    IN IF cell_text = <<>> THEN <<"0">>
       ELSE IF RatePer100k(cell_text) # <<>>
            THEN FormatThousands(RawCount(cell_text)) \o <<" ", "(">>
                 \o RatePer100k(cell_text) \o <<")">>
            ELSE FormatThousands(RawCount(cell_text))

\* the value stored for a footer cell
FormatIndexCell(cell) == IF Strip(cell) # <<>> THEN Strip(cell) ELSE NotFound

\* the year entries of a row: the cell at position i goes under headers[i] when there is
\* such a header (the first header stands over the crime type)
RECURSIVE AssignYears(_, _, _)
AssignYears(row_data, headers, values) ==
    IF values = <<>> THEN row_data
    ELSE LET i == Len(values)
             rest == AssignYears(row_data, headers, SubSeq(values, 1, i - 1))
         IN IF i + 1 <= Len(headers) THEN DictSet(rest, headers[i + 1], values[i])
            ELSE rest

\* row_data of a body row; a row is [bold, cells]: the text of the <b> of its first cell
\* (None without one) and the texts of its other cells
BodyRowData(row, headers, city_name) ==
    AssignYears(<< [key |-> ColCity, value |-> city_name],
                   [key |-> ColCrimeType, value |-> Strip(row.bold[1])] >>,
                headers, [i \in 1..Len(row.cells) |-> FormatCountCell(row.cells[i])])

\* crime_data after the loop over the body rows
RECURSIVE BodyData(_, _, _)
BodyData(rows, headers, city_name) ==
    IF rows = <<>> THEN <<>>
    ELSE LET rest == BodyData(SubSeq(rows, 1, Len(rows) - 1), headers, city_name)
             row == rows[Len(rows)]
         IN IF Len(row.cells) + 1 >= 2
            THEN IF row.bold = None THEN rest
                 ELSE IF Strip(row.bold[1]) = CityDataIndexType THEN rest
                 ELSE Append(rest, BodyRowData(row, headers, city_name))
            ELSE rest

\* the footer's Crime Index row added whatever the body gave
MutFooterAlwaysAdded(crime_data, table, headers, city_name) ==
    IF /\ table.tfoot = "ok"
       /\ Len(table.footer) + 1 >= 2
    THEN Append(crime_data,
             AssignYears(<< [key |-> ColCity, value |-> city_name],
                            [key |-> ColCrimeType, value |-> CrimeIndexType] >>,
                         headers,
                         [i \in 1..Len(table.footer) |-> FormatIndexCell(table.footer[i])]))
    ELSE crime_data

\* crime_data after the footer block: the footer's Crime Index row is added unless the
\* body gave one
WithFooter(crime_data, table, headers, city_name) ==
    IF /\ table.tfoot = "ok"
       /\ Len(table.footer) + 1 >= 2
       /\ ~\E k \in 1..Len(crime_data) : DictGet(crime_data[k], ColCrimeType) = CrimeIndexType
    THEN Append(crime_data,
             AssignYears(<< [key |-> ColCity, value |-> city_name],
                            [key |-> ColCrimeType, value |-> CrimeIndexType] >>,
                         headers,
                         [i \in 1..Len(table.footer) |-> FormatIndexCell(table.footer[i])]))
    ELSE crime_data

\* the keys of a list of dicts in order of first appearance
RECURSIVE KeysInOrder(_)
KeysInOrder(dicts) ==
    IF dicts = <<>> THEN <<>>
    ELSE LET rest == KeysInOrder(SubSeq(dicts, 1, Len(dicts) - 1))
             last == dicts[Len(dicts)]
             new == SelectSeq([k \in 1..Len(last) |-> last[k].key],
                              LAMBDA key : key \notin SeqToSet(rest))
         IN rest \o new

\* a cell of a crime frame: City and Crime_Type as they are, a year value as a present
\* value
CrimeCell(col, value) == IF col \in {ColCity, ColCrimeType} THEN value ELSE Some(value)

\* pd.DataFrame(crime_data)
FrameOfDicts(dicts) ==
    LET columns == KeysInOrder(dicts)
    IN DataFrame(columns,
           [k \in 1..Len(dicts) |->
               [j \in 1..Len(columns) |->
                   IF DictHas(dicts[k], columns[j])
                   THEN CrimeCell(columns[j], DictGet(dicts[k], columns[j]))
                   ELSE None]])

\* the rows that are kept: a Crime Index row goes when a later row has its City and
\* Crime_Type
DropEarlierCrimeIndex(df) ==
    LET city == ColIndex(df, ColCity)
        type == ColIndex(df, ColCrimeType)
        kept == {k \in 1..Len(df.rows) :
                    ~(/\ \E later \in (k + 1)..Len(df.rows) :
                            /\ df.rows[later][city] = df.rows[k][city]
                            /\ df.rows[later][type] = df.rows[k][type]
                      /\ df.rows[k][type] = CrimeIndexType)}
    IN DataFrame(df.columns,
                 [n \in 1..Cardinality(kept) |->
                     df.rows[CHOOSE k \in kept :
                                 Cardinality({m \in kept : m < k}) = n - 1]])

\* df.fillna('Not Found')
FillNa(df, value) ==
    DataFrame(df.columns,
              [k \in 1..Len(df.rows) |->
                  [j \in 1..Len(df.columns) |->
                      IF df.rows[k][j] = None THEN Some(value) ELSE df.rows[k][j]]])

\* the frame made of crime_data: City, Crime_Type and the columns named by digits
CleanFrame(crime_data) ==
    LET df == FrameOfDicts(crime_data)
    IN IF IsEmpty(df) THEN df
       ELSE LET year_cols == SelectSeq(df.columns, LAMBDA col : IsDigit(col))
                keep_cols == SelectSeq(<<ColCity, ColCrimeType>> \o year_cols,
                                       LAMBDA col : HasColumn(df, col))
            IN FillNa(DropEarlierCrimeIndex(Project(df, keep_cols)), NotFound)

\* parse_crime_table: a frame, None, or the AttributeError of a thead without a row
ParseCrimeTable(table, city_name) ==
    IF table.thead = "missing" THEN [status |-> "none", df |-> EmptyFrame]
    ELSE IF table.thead = "no_tr" THEN [status |-> "raised", df |-> EmptyFrame]
    ELSE IF table.tbody = "missing" THEN [status |-> "none", df |-> EmptyFrame]
    ELSE [status |-> "frame",
          df |-> CleanFrame(WithFooter(BodyData(table.rows, table.headers, city_name),
                                       table, table.headers, city_name))]

-----------------------------------------------------------------------------
(* data_collection/crime_data.py: what the directory and the city pages serve *)

SouthApopka == <<"S", "o", "u", "t", "h", " ", "A", "p", "o", "p", "k", "a">>

\* the rows of a state's directory table that have three cells and a link, as
\* [city_name, href, population_text]
FullDirectory(state_abbr) ==
    IF state_abbr = FL
    THEN << [city_name |-> Apopka \o <<",", " ">> \o FL,
             href |-> <<"A", "p", "o", "p", "k", "a", "-", "F", "l", "o", "r", "i", "d", "a", ".", "h", "t", "m", "l">>,
             population_text |-> <<"5", "2", ",", "4", "0", "4">>],
            [city_name |-> Orlando \o <<",", " ">> \o FL,
             href |-> <<"O", "r", "l", "a", "n", "d", "o", "-", "F", "l", "o", "r", "i", "d", "a", ".", "h", "t", "m", "l">>,
             population_text |-> <<"3", "0", "7", ",", "5", "7", "3">>],
            [city_name |-> SouthApopka \o <<",", " ">> \o FL,
             href |-> <<"S", "o", "u", "t", "h", "-", "A", "p", "o", "p", "k", "a", "-", "F", "l", "o", "r", "i", "d", "a", ".", "h", "t", "m", "l">>,
             population_text |-> <<"6", ",", "8", "0", "3">>],
            [city_name |-> Tampa \o <<",", " ">> \o FL,
             href |-> <<"T", "a", "m", "p", "a", "-", "F", "l", "o", "r", "i", "d", "a", ".", "h", "t", "m", "l">>,
             population_text |-> <<"N", "/", "A">>] >>
    ELSE IF state_abbr = GA
    THEN << [city_name |-> Jonesboro \o <<",", " ">> \o GA,
             href |-> <<"J", "o", "n", "e", "s", "b", "o", "r", "o", "-", "G", "e", "o", "r", "g", "i", "a", ".", "h", "t", "m", "l">>,
             population_text |-> <<"4", ",", "7", "2", "4">>] >>
    ELSE <<>>

\* the directory tables a request brings: the full table, the table without one of its
\* rows, or a table without rows
DirectoryListings(state_abbr) ==
    LET full == FullDirectory(state_abbr)
    IN {full, <<>>} \cup {SelectSeqBy(full, SeqToSet(full) \ {row}) : row \in SeqToSet(full)}

\* a crime table of a city page: thead is "ok", "missing" or "no_tr"; tbody "ok" or
\* "missing"; tfoot "ok", "missing" or "no_tr"; footer holds the footer cells after the
\* first
ServedTable(thead, headers, tbody, rows, tfoot, footer) ==
    [thead |-> thead, headers |-> headers, tbody |-> tbody, rows |-> rows,
     tfoot |-> tfoot, footer |-> footer]

MurdersRow ==
    [bold |-> Some(Murders), cells |-> <<<<"1", ",", "2", "3", "4", " ", "(", "4", ".", "1", ")">>, <<>>, <<"7">>>>]

SiteIndexRow ==
    [bold |-> Some(CityDataIndexType), cells |-> <<<<"3", "1", "0", ".", "5">>, <<"2", "9", "8", ".", "2">>>>]

UnlabelledRow == [bold |-> None, cells |-> <<<<"3">>, <<"4">>>>]

BodyIndexRow ==
    [bold |-> Some(CrimeIndexType), cells |-> <<<<"2", "5", "0", ".", "0">>, <<"2", "6", "0", ".", "0">>>>]

YearHeaders == <<HeaderType, Year2022, Year2023>>

FooterCells == <<<<"3", "1", "0", ".", "5">>, <<>> >>

\* the crime tables a city page can hold
ServedTables ==
    { ServedTable("ok", YearHeaders, "ok", <<MurdersRow, SiteIndexRow>>, "ok", FooterCells),
      ServedTable("ok", YearHeaders, "ok", <<BodyIndexRow, MurdersRow>>, "ok", FooterCells),
      ServedTable("ok", YearHeaders, "ok", <<UnlabelledRow>>, "missing", <<>>),
      ServedTable("missing", <<>>, "ok", <<MurdersRow>>, "ok", FooterCells),
      ServedTable("no_tr", <<>>, "ok", <<MurdersRow>>, "ok", FooterCells),
      ServedTable("ok", YearHeaders, "missing", <<>>, "ok", FooterCells) }

\* the ways a city page gives no crime table at all
CityPageFailures == {"http_error", "timeout", "no_table"}

-----------------------------------------------------------------------------
(* data_collection/crime_data.py: get_state_crime_data *)

\* input_df['State'].unique()
RECURSIVE UniqueStates(_)
UniqueStates(df) ==
    IF df = <<>> THEN <<>>
    ELSE LET rest == UniqueStates(SubSeq(df, 1, Len(df) - 1))
         IN IF df[Len(df)].State \in SeqToSet(rest) THEN rest
            ELSE Append(rest, df[Len(df)].State)

\* input_df[input_df['State'] == state_abbr]['City'].tolist()
StateCities(df, state_abbr) ==
    LET rows == SelectSeq(df, LAMBDA row : row.State = state_abbr)
    IN [k \in 1..Len(rows) |-> rows[k].City]

\* pop_number: the text without commas and blanks as a number, 0 when it is not one
PopulationNumber(population_text) ==
    LET pop_clean == Replace(Replace(population_text, <<",">>, <<>>), <<" ">>, <<>>)
    IN IF IsDigit(pop_clean) THEN ParseInt(pop_clean) ELSE 0

\* cityUrl
CityUrlBase == <<"h", "t", "t", "p", "s", ":", "/", "/", "w", "w", "w", ".", "c", "i", "t", "y", "-", "d", "a", "t", "a", ".", "c", "o", "m", "/", "c", "i", "t", "y", "/">>

\* cities_data: an entry for every row of the directory table
CitiesData(listing) ==
    [i \in 1..Len(listing) |->
        [city_name |-> Strip(listing[i].city_name),
         population_text |-> Strip(listing[i].population_text),
         population_number |-> PopulationNumber(Strip(listing[i].population_text)),
         detail_url |-> IF listing[i].href # <<>> THEN CityUrlBase \o listing[i].href
                        ELSE <<>>,
         row_index |-> i]]

\* a test that also takes an entry whose name holds a user's city or is held by it
MutSubstringIsUserCity(city_data, state_abbr, state_cities) ==
    \E k \in 1..Len(state_cities) :
        LET clean == Lower(Strip(Replace(city_data.city_name, <<",", " ">> \o state_abbr,
                                         <<>>)))
        IN Contains(Lower(state_cities[k]), clean) \/ Contains(clean, Lower(state_cities[k]))

\* the test of one directory entry: its name without the state suffix, in lower case,
\* is one of the user's cities in lower case
IsUserCity(city_data, state_abbr, state_cities) ==
    Lower(Strip(Replace(city_data.city_name, <<",", " ">> \o state_abbr, <<>>)))
        \in {Lower(state_cities[k]) : k \in 1..Len(state_cities)}

\* filtered_cities
FilteredCities(cities_data, state_abbr, state_cities) ==
    SelectSeq(cities_data, LAMBDA city_data : IsUserCity(city_data, state_abbr, state_cities))

\* pd.concat(frames, ignore_index=True): the columns in order of first appearance, a
\* missing value where a frame lacks a column
ConcatFrames(frames) ==
    LET columns == KeysInOrder([f \in 1..Len(frames) |->
                       [j \in 1..Len(frames[f].columns) |->
                           [key |-> frames[f].columns[j], value |-> None]]])
        Rows(df) == [k \in 1..Len(df.rows) |->
                        [j \in 1..Len(columns) |->
                            IF HasColumn(df, columns[j])
                            THEN df.rows[k][ColIndex(df, columns[j])] ELSE None]]
    IN DataFrame(columns, Flatten([f \in 1..Len(frames) |-> Rows(frames[f])]))

\* what a step of get_state_crime_data leaves alone
crimeFrame == <<input_df, start_year, end_year, target_areas, resolveVars, fetchVars,
                reconcileVars, parseVars, analysisVars, runVars>>

\* the state at the loop's position
CurrentState == UniqueStates(input_df)[state_i]

\* a state that is not in state_mapping: continue
CrimeSkipState ==
    /\ pc = "crime_state"
    /\ state_i <= Len(UniqueStates(input_df))
    /\ ~DictHas(state_mapping, CurrentState)
    /\ state_i' = state_i + 1
    /\ UNCHANGED <<pc, crimeFrame, filtered_cities, city_i, crime_requests, all_crime_data,
                   crime_df>>

\* the directory request raises, or its page has no cities table: on to the next state
CrimeDirectoryFails ==
    /\ pc = "crime_state"
    /\ state_i <= Len(UniqueStates(input_df))
    /\ DictHas(state_mapping, CurrentState)
    /\ \E outcome \in {"exception", "no_table"} :
          crime_requests' = Append(crime_requests,
              [kind |-> "directory", name |-> CurrentState, outcome |-> outcome,
               matched |-> <<>>, df |-> EmptyFrame])
    /\ state_i' = state_i + 1
    /\ UNCHANGED <<pc, crimeFrame, filtered_cities, city_i, all_crime_data, crime_df>>

\* the directory is read and filtered to the user's cities; with no match on to the
\* next state, else the matched cities are scraped
CrimeDirectoryListed ==
    /\ pc = "crime_state"
    /\ state_i <= Len(UniqueStates(input_df))
    /\ DictHas(state_mapping, CurrentState)
    /\ \E listing \in DirectoryListings(CurrentState) :
          LET matched == FilteredCities(CitiesData(listing), CurrentState,
                                        StateCities(input_df, CurrentState))
          IN /\ crime_requests' = Append(crime_requests,
                    [kind |-> "directory", name |-> CurrentState, outcome |-> "ok",
                     matched |-> [k \in 1..Len(matched) |-> matched[k].city_name],
                     df |-> EmptyFrame])
             /\ IF matched = <<>>
                THEN /\ state_i' = state_i + 1
                     /\ UNCHANGED <<pc, filtered_cities, city_i>>
                ELSE /\ filtered_cities' = matched
                     /\ city_i' = 1
                     /\ pc' = "crime_city"
                     /\ UNCHANGED state_i
    /\ UNCHANGED <<crimeFrame, all_crime_data, crime_df>>

\* a failure of a city's page that ends the scrape of the state's cities
MutCityFailureEndsState ==
    /\ pc = "crime_city"
    /\ city_i <= Len(filtered_cities)
    /\ \E outcome \in CityPageFailures :
          crime_requests' = Append(crime_requests,
              [kind |-> "city", name |-> filtered_cities[city_i].city_name,
               outcome |-> outcome, matched |-> <<>>, df |-> EmptyFrame])
    /\ state_i' = state_i + 1
    /\ pc' = "crime_state"
    /\ UNCHANGED <<crimeFrame, filtered_cities, city_i, all_crime_data, crime_df>>

\* the city's page cannot be fetched or holds no crime table: a message, next city
CrimeCityFails ==
    /\ pc = "crime_city"
    /\ city_i <= Len(filtered_cities)
    /\ \E outcome \in CityPageFailures :
          crime_requests' = Append(crime_requests,
              [kind |-> "city", name |-> filtered_cities[city_i].city_name,
               outcome |-> outcome, matched |-> <<>>, df |-> EmptyFrame])
    /\ city_i' = city_i + 1
    /\ UNCHANGED <<pc, crimeFrame, state_i, filtered_cities, all_crime_data, crime_df>>

\* the city's crime table is parsed; a non-empty frame is kept, None, an empty frame
\* and an exception of the parser leave a message only
CrimeCityParsed ==
    /\ pc = "crime_city"
    /\ city_i <= Len(filtered_cities)
    /\ \E table \in ServedTables :
          LET parsed == ParseCrimeTable(table, filtered_cities[city_i].city_name)
              outcome == IF parsed.status = "raised" THEN "parse_error"
                         ELSE IF parsed.status = "none" THEN "no_data"
                         ELSE IF IsEmpty(parsed.df) THEN "no_data" ELSE "ok"
          IN /\ crime_requests' = Append(crime_requests,
                    [kind |-> "city", name |-> filtered_cities[city_i].city_name,
                     outcome |-> outcome, matched |-> <<>>,
                     df |-> IF outcome = "ok" THEN parsed.df ELSE EmptyFrame])
             /\ all_crime_data' = IF outcome = "ok" THEN Append(all_crime_data, parsed.df)
                                  ELSE all_crime_data
    /\ city_i' = city_i + 1
    /\ UNCHANGED <<pc, crimeFrame, state_i, filtered_cities, crime_df>>

\* the state's cities are done: next state
CrimeCitiesDone ==
    /\ pc = "crime_city"
    /\ city_i > Len(filtered_cities)
    /\ state_i' = state_i + 1
    /\ pc' = "crime_state"
    /\ UNCHANGED <<crimeFrame, filtered_cities, city_i, crime_requests, all_crime_data,
                   crime_df>>

\* after the last state the frames are combined, or an empty frame is returned
CrimeReturn ==
    /\ pc = "crime_state"
    /\ state_i > Len(UniqueStates(input_df))
    /\ crime_df' = IF all_crime_data # <<>> THEN ConcatFrames(all_crime_data)
                   ELSE EmptyFrame
    /\ pc' = "crime_returned"
    /\ UNCHANGED <<crimeFrame, state_i, filtered_cities, city_i, crime_requests,
                   all_crime_data>>

\* the rows the scraper is called with: the input frames, and a city typed in lower
\* case, a city whose name is part of another city's name in the directory, and a city
\* that the directory does not list
CrimeInputFrames ==
    InputFrames
    \cup { <<[City |-> Lower(Orlando), State |-> FL]>>,
           <<[City |-> Apopka, State |-> FL]>>,
           <<[City |-> <<"S", "o", "u", "t", "h">>, State |-> FL], [City |-> Tampa, State |-> FL]>> }

InitCrime ==
    /\ pc = "crime_state"
    /\ input_df \in CrimeInputFrames
    /\ start_year = min_year
    /\ end_year = min_year
    /\ target_areas = <<>>
    /\ ResolveIdle
    /\ FetchIdle
    /\ population_df = EmptyFrame
    /\ age_df = EmptyFrame
    /\ employment_df = EmptyFrame
    /\ state_i = 1
    /\ filtered_cities = <<>>
    /\ city_i = 0
    /\ crime_requests = <<>>
    /\ all_crime_data = <<>>
    /\ crime_df = EmptyFrame
    /\ ReconcileIdle
    /\ ParseIdle
    /\ AnalysisIdle
    /\ RunIdle

NextCrime ==
    \/ CrimeSkipState
    \/ CrimeDirectoryFails
    \/ CrimeDirectoryListed
    \/ CrimeCityFails
    \/ CrimeCityParsed
    \/ CrimeCitiesDone
    \/ CrimeReturn

SpecCrime == InitCrime /\ [][NextCrime]_vars

-----------------------------------------------------------------------------
(* data_collection/crime_data.py: parse_crime_table called on one table *)

Unknown == <<"U", "n", "k", "n", "o", "w", "n">>

\* the texts a body cell can hold
BodyCells ==
    { <<"1", ",", "2", "3", "4", " ", "(", "5", "6", ".", "7", ")">>,
      <<>>,
      <<"7">>,
      <<"1", "2", "3", "4">>,
      <<"N", "/", "A">>,
      <<" ", "1", "2", " ", "(", "3", ".", "4", ")", " ">>,
      <<" ", " ">>,
      <<"(", "9", ".", "9", ")">>,
      <<"1", "2", "3", "4", "5", "6", "7", " ", "(", "8", ".", "1", ")">>,
      <<"0", "0", "7">>,
      <<",">>,
      <<"5", " ", "(", ")">> }

\* a table of one labelled body row under the year headers, without a footer
CellTable(c1, c2) ==
    ServedTable("ok", YearHeaders, "ok", <<[bold |-> Some(Murders), cells |-> <<c1, c2>>]>>,
                "missing", <<>>)

\* the rows a body is made of
BodyRowKinds == {MurdersRow, SiteIndexRow, BodyIndexRow, UnlabelledRow}

\* the bodies of at most two rows
Bodies ==
    {<<>>} \cup {<<r>> : r \in BodyRowKinds} \cup {<<r, s>> : r, s \in BodyRowKinds}

\* the footers: a row of cells, a row with the label cell only, a tfoot without a row,
\* no tfoot
Footers ==
    { [tfoot |-> "ok", footer |-> FooterCells],
      [tfoot |-> "ok", footer |-> <<>>],
      [tfoot |-> "no_tr", footer |-> <<>>],
      [tfoot |-> "missing", footer |-> <<>>] }

\* the tables parse_crime_table is called with; None is a page without the table
ParsedTables ==
    {None} \cup {Some(t) : t \in ServedTables}
    \cup {Some(CellTable(c1, c2)) : c1, c2 \in BodyCells}
    \cup {Some(ServedTable("ok", YearHeaders, "ok", b, f.tfoot, f.footer)) :
             b \in Bodies, f \in Footers}

parseFrame == <<input_df, start_year, end_year, target_areas, resolveVars, fetchVars,
                crimeVars, reconcileVars, analysisVars, runVars>>

\* if not crtable: return None
ParseNoTable ==
    /\ pc = "parse_call"
    /\ crtable = None
    /\ df_crime' = [status |-> "none", df |-> EmptyFrame]
    /\ pc' = "parse_returned"
    /\ UNCHANGED <<crtable, parseFrame>>

\* header_row.find('tr') gave None: find_all on it raises AttributeError
ParseRaises ==
    /\ pc = "parse_call"
    /\ crtable # None
    /\ ParseCrimeTable(crtable[1], Unknown).status = "raised"
    /\ df_crime' = ParseCrimeTable(crtable[1], Unknown)
    /\ pc' = "parse_raised"
    /\ UNCHANGED <<crtable, parseFrame>>

\* the call returns None or the frame
ParseReturns ==
    /\ pc = "parse_call"
    /\ crtable # None
    /\ ParseCrimeTable(crtable[1], Unknown).status # "raised"
    /\ df_crime' = ParseCrimeTable(crtable[1], Unknown)
    /\ pc' = "parse_returned"
    /\ UNCHANGED <<crtable, parseFrame>>

InitParse ==
    /\ pc = "parse_call"
    /\ input_df = <<>>
    /\ start_year = min_year
    /\ end_year = min_year
    /\ target_areas = <<>>
    /\ ResolveIdle
    /\ FetchIdle
    /\ population_df = EmptyFrame
    /\ age_df = EmptyFrame
    /\ employment_df = EmptyFrame
    /\ CrimeIdle
    /\ ReconcileIdle
    /\ crtable \in ParsedTables
    /\ df_crime = None
    /\ AnalysisIdle
    /\ RunIdle

NextParse ==
    \/ ParseNoTable
    \/ ParseRaises
    \/ ParseReturns

SpecParse == InitParse /\ [][NextParse]_vars

-----------------------------------------------------------------------------
(* data_collection/census_data.py, bls_data.py: the growth analysis and the trend
   analysis on the records the request loops have gathered *)

\* the two areas of the analysis, in either order of the input
AnalysisAreas ==
    {<<CityFacts[1], CityFacts[3]>>, <<CityFacts[3], CityFacts[1]>>}

GrowthYears == <<2015, 2016, 2017>>

GrowthPopulations == {None, Some(0), Some(100), Some(200)}

\* one record per year and area, year by year, the populations given by year and area
PopulationRecords(areas, years, population) ==
    Flatten([y \in 1..Len(years) |->
                [a \in 1..Len(areas) |->
                    PopulationRecord(years[y], areas[a], population[y][a])]])

\* 2015 to 2020 with a population for the first and the last year only: 250000 to 280000
\* for Orlando, 350000 to 370000 for Tampa
ScenarioPopulation(areas) ==
    [y \in 1..6 |->
        [a \in 1..2 |->
            IF y = 1 THEN Some(IF areas[a].city = Orlando THEN 250000 ELSE 350000)
            ELSE IF y = 6 THEN Some(IF areas[a].city = Orlando THEN 280000 ELSE 370000)
            ELSE None]]

PopulationRecordLists ==
    {PopulationRecords(areas, GrowthYears, population) :
        areas \in AnalysisAreas,
        population \in [1..Len(GrowthYears) -> [1..2 -> GrowthPopulations]]}
    \cup {PopulationRecords(areas, <<2015, 2016, 2017, 2018, 2019, 2020>>,
                            ScenarioPopulation(areas)) : areas \in AnalysisAreas}

TrendYears == <<2009, 2010>>

\* what a year's response holds for a location
TrendData ==
    { [unemployment_rate |-> Some(5), employed |-> Some(100)],
      [unemployment_rate |-> Some(4), employed |-> Some(105)],
      [unemployment_rate |-> Some(5), employed |-> Some(105)],
      [unemployment_rate |-> Some(6), employed |-> Some(100)],
      [unemployment_rate |-> None, employed |-> Some(100)],
      [unemployment_rate |-> Some(5), employed |-> Some(0)] }

EmploymentRecordLists ==
    {Flatten([y \in 1..Len(TrendYears) |->
                 [a \in 1..Len(areas) |->
                     EmploymentRecord(TrendYears[y], LocationKey(areas[a]), data[y][a])]]) :
        areas \in AnalysisAreas, data \in [1..Len(TrendYears) -> [1..2 -> TrendData]]}

analysisFrame == <<input_df, start_year, end_year, target_areas, resolveVars, fetchVars,
                   crimeVars, reconcileVars, parseVars, runVars>>

AnalysisInputsIdle ==
    /\ input_df = <<>>
    /\ start_year = min_year
    /\ end_year = min_year
    /\ target_areas = <<>>
    /\ ResolveIdle
    /\ year = min_year
    /\ area_i = 0
    /\ census_requests = <<>>
    /\ all_age_data = <<>>
    /\ population_df = EmptyFrame
    /\ age_df = EmptyFrame
    /\ bls_requests = <<>>
    /\ employment_df = EmptyFrame
    /\ CrimeIdle
    /\ ReconcileIdle
    /\ ParseIdle
    /\ AnalysisIdle
    /\ RunIdle

\* census_data.py:109-172: the locations ranked by growth rate, the first reported
PopulationGrowth ==
    /\ pc = "growth_call"
    /\ \E ranked \in RankedGrowth(all_population_data) :
          /\ growth_df' = ranked
          /\ strongest_market_info' = StrongestMarketInfo(ranked)
    /\ pc' = "growth_done"
    /\ UNCHANGED <<analysisFrame, employment_analysis_df, strongest_employment_info>>

InitGrowth ==
    /\ pc = "growth_call"
    /\ all_population_data \in PopulationRecordLists
    /\ all_employment_data = <<>>
    /\ AnalysisInputsIdle

NextGrowth == PopulationGrowth

SpecGrowth == InitGrowth /\ [][NextGrowth]_vars

\* bls_data.py:139-220: the locations ranked by composite score, the first reported
EmploymentTrend ==
    /\ pc = "trend_call"
    /\ \E ranked \in RankedTrend(all_employment_data) :
          /\ employment_analysis_df' = ranked
          /\ strongest_employment_info' = StrongestEmploymentInfo(ranked)
    /\ pc' = "trend_done"
    /\ UNCHANGED <<analysisFrame, growth_df, strongest_market_info>>

InitTrend ==
    /\ pc = "trend_call"
    /\ all_population_data = <<>>
    /\ all_employment_data \in EmploymentRecordLists
    /\ AnalysisInputsIdle

NextTrend == EmploymentTrend

SpecTrend == InitTrend /\ [][NextTrend]_vars

\* either analysis, on the records of its fetcher
InitAnalysis == InitGrowth \/ InitTrend

NextAnalysis ==
    \/ PopulationGrowth
    \/ EmploymentTrend

SpecAnalysis == InitAnalysis /\ [][NextAnalysis]_vars

-----------------------------------------------------------------------------
(* main.py: main, and app.py: main -- a run from the key check to the charts *)

\* the inputs of a run: one city, or a city of an unknown state before Orlando; the
\* first year the sources serve
RunFrames ==
    {<<row>> : row \in InputRows}
    \cup {<<[City |-> SanJuan, State |-> PR], [City |-> Orlando, State |-> FL]>>}

\* everything but pc and the loop positions the callers set
runFrame == <<input_df, start_year, end_year, target_areas, county_mapping,
              resolver_requests, error, census_requests, all_population_data,
              all_age_data, population_df, age_df, bls_requests, all_employment_data,
              employment_df, filtered_cities, crime_requests, all_crime_data, crime_df,
              reconcileVars, parseVars, analysisVars, runVars>>

\* if not census_api_key or not bls_api_key: return -- before anything else runs
RunRefused ==
    /\ pc = "run_start"
    /\ ~census_api_key \/ ~bls_api_key
    /\ pc' = "run_refused"
    /\ UNCHANGED <<runFrame, row_i, year, area_i, state_i, city_i>>

\* the resolver called as soon as the census key is set
MutCallsResolverWithCensusKey ==
    /\ pc = "run_start"
    /\ census_api_key
    /\ pc' = "resolve_row"
    /\ row_i' = 1
    /\ UNCHANGED <<runFrame, year, area_i, state_i, city_i>>

\* both keys are set: the input is read and convert_input_to_target_areas is called
RunCallResolver ==
    /\ pc = "run_start"
    /\ census_api_key /\ bls_api_key
    /\ pc' = "resolve_row"
    /\ row_i' = 1
    /\ UNCHANGED <<runFrame, year, area_i, state_i, city_i>>

\* the resolver's ValueError: the dashboard shows it and returns, the CLI lets it go
RunResolverRaised ==
    /\ pc = "resolve_raised"
    /\ pc' = IF entry = "app" THEN "run_error_shown" ELSE "run_raised"
    /\ UNCHANGED <<runFrame, row_i, year, area_i, state_i, city_i>>

\* get_census_data is called with the target areas
RunCallCensus ==
    /\ pc = "resolve_returned"
    /\ pc' = "census_year"
    /\ year' = start_year
    /\ area_i' = 0
    /\ UNCHANGED <<runFrame, row_i, state_i, city_i>>

\* get_census_data returned its three values: the dashboard takes three and calls
\* get_bls_data; the CLI takes two, which raises ValueError (too many values to unpack)
RunCensusReturned ==
    /\ pc = "census_returned"
    /\ pc' = IF entry = "app" THEN "bls_setup" ELSE "run_raised"
    /\ UNCHANGED <<runFrame, row_i, year, area_i, state_i, city_i>>

\* get_bls_data returned: get_state_crime_data is called with the input
RunCallCrime ==
    /\ pc = "bls_returned"
    /\ pc' = "crime_state"
    /\ state_i' = 1
    /\ city_i' = 0
    /\ UNCHANGED <<runFrame, row_i, year, area_i>>

\* a caller that reconciles as soon as get_bls_data has returned
MutReconcilesBeforeCrime ==
    /\ pc = "bls_returned"
    /\ pc' = "reconcile_population"
    /\ UNCHANGED <<runFrame, row_i, year, area_i, state_i, city_i>>

\* get_state_crime_data returned: analyze_and_visualize_data is called with the three
\* tables, the crime table and the target areas
RunCallReconcile ==
    /\ pc = "crime_returned"
    /\ pc' = "reconcile_population"
    /\ UNCHANGED <<runFrame, row_i, year, area_i, state_i, city_i>>

\* analyze_and_visualize_data returned: create_visualizations draws the charts
RunVisualize ==
    /\ pc = "reconcile_returned"
    /\ pc' = "run_done"
    /\ UNCHANGED <<runFrame, row_i, year, area_i, state_i, city_i>>

InitRun ==
    /\ pc = "run_start"
    /\ entry \in {"main", "app"}
    /\ census_api_key \in BOOLEAN
    /\ bls_api_key \in BOOLEAN
    /\ input_df \in RunFrames
    /\ start_year = min_year
    /\ end_year = min_year
    /\ target_areas = <<>>
    /\ ResolveIdle
    /\ FetchIdle
    /\ population_df = EmptyFrame
    /\ age_df = EmptyFrame
    /\ employment_df = EmptyFrame
    /\ CrimeIdle
    /\ ReconcileIdle
    /\ ParseIdle
    /\ AnalysisIdle

NextRun ==
    \/ RunRefused
    \/ RunCallResolver
    \/ RunResolverRaised
    \/ RunCallCensus
    \/ RunCensusReturned
    \/ RunCallCrime
    \/ RunCallReconcile
    \/ RunVisualize
    \/ NextResolve
    \/ NextFetch
    \/ NextCrime
    \/ NextReconcile

SpecRun == InitRun /\ [][NextRun]_vars

\* a run over a range of years
InitRunYears ==
    /\ pc = "run_start"
    /\ entry \in {"main", "app"}
    /\ census_api_key \in BOOLEAN
    /\ bls_api_key \in BOOLEAN
    /\ input_df \in RunFrames
    /\ start_year = min_year
    /\ end_year \in min_year..(min_year + MaxSpan)
    /\ target_areas = <<>>
    /\ ResolveIdle
    /\ FetchIdle
    /\ population_df = EmptyFrame
    /\ age_df = EmptyFrame
    /\ employment_df = EmptyFrame
    /\ CrimeIdle
    /\ ReconcileIdle
    /\ ParseIdle
    /\ AnalysisIdle

SpecRunYears == InitRunYears /\ [][NextRun]_vars

-----------------------------------------------------------------------------
(* Claims about the geographic resolver, checked under SpecResolve *)

\* the last county-list request made for an area
LastCountyListOf(area) ==
    LET ks == {k \in 1..Len(resolver_requests) :
                  resolver_requests[k].kind = "county_list" /\ resolver_requests[k].area = area}
    IN resolver_requests[Max(ks)]

\* the codes of the candidates of a served list that match the county name
MatchedCandidateCodes(county_name, response) ==
    IF response = None THEN {}
    ELSE {row[3] : row \in {r \in SeqToSet(response[1]) :
              /\ Len(r) >= 3
              /\ CandidateMatches(CleanCountyName(county_name), CleanCandidateName(r[1]))}}

\* the candidates of a served list that match the county name, with or without a code
MatchedCandidates(county_name, response) ==
    IF response = None THEN {}
    ELSE {r \in SeqToSet(response[1]) :
              CandidateMatches(CleanCountyName(county_name), CleanCandidateName(r[1]))}

\* C5: every input whose page names a county is stored, and its fips_county is the
\* 3-digit code of a candidate of the county list that matches the county, or "000";
\* it is never null and never empty, and it is "000" when the list request failed or
\* no candidate matched; neither case fails the resolution
C5_FipsCountyIsCodeOrSentinel ==
    /\ \A k \in 1..Len(resolver_requests) :
          resolver_requests[k].kind = "county_list"
              => /\ DictHas(target_areas, resolver_requests[k].area)
                 /\ LET info == DictGet(target_areas, resolver_requests[k].area)
                        q == LastCountyListOf(resolver_requests[k].area)
                    IN /\ info.fips_county # None
                       /\ Len(info.fips_county) = 3
                       /\ IsDigit(info.fips_county)
                       /\ info.fips_county \in
                              {Fips000} \cup MatchedCandidateCodes(q.county_name, q.response)
                       /\ MatchedCandidates(q.county_name, q.response) = {}
                              => info.fips_county = Fips000
    /\ pc = "resolve_raised" /\ resolver_requests # <<>>
          => resolver_requests[Len(resolver_requests)].outcome \in PageFailures

\* a resolution that returned one area with a matched code and one with the sentinel,
\* the latter after a failed county-list request
C5_Witness ==
    /\ pc = "resolve_returned"
    /\ \E e \in SeqToSet(target_areas) : e.value.fips_county = Fips063
    /\ \E e \in SeqToSet(target_areas) :
          /\ e.value.fips_county = Fips000
          /\ LastCountyListOf(e.key).response = None

\* C6: the resolver returns only when every input row has a state code of the lookup
\* table, so a row with an unknown code always ends the run with an error
C6_UnknownStateFailsResolution ==
    pc = "resolve_returned"
        => \A i \in 1..Len(input_df) : DictHas(state_mapping, input_df[i].State)

-----------------------------------------------------------------------------
(* Claims about analyze_and_visualize_data, checked under SpecReconcile *)

\* a value is absent: None, or a frame without rows or columns
IsAbsent(df) == IF df = None THEN TRUE ELSE IsEmpty(df)

\* a non-empty crime table as parse_crime_table builds it: City, Crime_Type and columns
\* named by the year text, with a Crime Index row
ScraperProduced(df) ==
    /\ ~IsAbsent(df)
    /\ \A k \in 1..Len(df.columns) :
          df.columns[k] \in {ColCity, ColCrimeType} \/ IsDigit(df.columns[k])
    /\ \E k \in 1..Len(df.columns) : IsDigit(df.columns[k])
    /\ ~IsEmpty(CrimeIndexData(df))

\* the lexicographically greatest year column of a scraper-produced table
MaxYearColumn(df) ==
    CHOOSE col \in SeqToSet(df.columns) :
        /\ IsDigit(col)
        /\ \A other \in SeqToSet(df.columns) :
              IsDigit(other) /\ other # col => StrLess(other, col)

\* the counties of the rows of a frame
CountiesOf(df) ==
    IF HasColumn(df, ColCounty) THEN SeqToSet(Column(df, ColCounty)) ELSE {}

\* how many rows of a frame a county has
RowCount(df, county) ==
    IF HasColumn(df, ColCounty)
    THEN Cardinality({k \in 1..Len(df.rows) : df.rows[k][ColIndex(df, ColCounty)] = county})
    ELSE 0

\* the rows of a county all have a null Crime_Index: a missing value or no such column
NullCrimeIndex(df, county) ==
    \/ ~HasColumn(df, ColCrimeIndex)
    \/ \A k \in 1..Len(df.rows) :
          df.rows[k][ColIndex(df, ColCounty)] = county
              => df.rows[k][ColIndex(df, ColCrimeIndex)] = None

\* the cities of a crime table that map to a county
CrimeCitiesOf(crime, areas, county) ==
    IF IsAbsent(crime) THEN {}
    ELSE {city \in SeqToSet(Column(crime, ColCity)) :
             MapCityToCounty(city, CityToCountyMapping(areas)) = county}

\* C7: reconciling a non-empty crime table built by the scraper gives the merged table a
\* Crime_Index column that holds, for every county a crime city maps to, the city's
\* Crime Index value of the lexicographically greatest year column
C7_CrimeIndexFromLatestYear ==
    pc = "reconcile_returned" /\ ScraperProduced(crime_df) /\ target_areas # None
        => /\ HasColumn(demographic_data, ColCrimeIndex)
           /\ \A r \in SeqToSet(CrimeIndexData(crime_df).rows) :
                 LET county == MapCityToCounty(r[ColIndex(crime_df, ColCity)],
                                               CityToCountyMapping(target_areas))
                 IN county \in CountiesOf(demographic_data)
                       => \E d \in SeqToSet(demographic_data.rows) :
                             /\ d[ColIndex(demographic_data, ColCounty)] = county
                             /\ d[ColIndex(demographic_data, ColCrimeIndex)]
                                    = r[ColIndex(crime_df, MaxYearColumn(crime_df))]

\* C8: the crime join keeps, for every county that no crime city maps to, as many rows
\* as the table had before the join, leaves their Crime_Index null, and raises nothing
C8_CrimeJoinKeepsCountyRows ==
    [][pc = "reconcile_crime"
          => /\ pc' = "reconcile_report"
             /\ \A county \in CountiesOf(demographic_data) :
                   CrimeCitiesOf(crime_df, target_areas, county) = {}
                       => /\ RowCount(demographic_data', county)
                                = RowCount(demographic_data, county)
                          /\ NullCrimeIndex(demographic_data', county)]_vars

\* the join ran with a crime city for one county and none for another: the other
\* county's row is there with a null Crime_Index
C8_Witness ==
    /\ pc = "reconcile_report"
    /\ HasColumn(demographic_data, ColCrimeIndex)
    /\ \E county \in CountiesOf(demographic_data) :
          /\ CrimeCitiesOf(crime_df, target_areas, county) = {}
          /\ RowCount(demographic_data, county) > 0
          /\ NullCrimeIndex(demographic_data, county)
    /\ \E county \in CountiesOf(demographic_data) :
          ~NullCrimeIndex(demographic_data, county)

\* C9: with employment absent and crime absent the returned table has exactly the
\* columns of the population/age merge, County, Population and Median Age (none when
\* there is no population row), and no employment or crime column
C9_OnlyPopulationAgeColumns ==
    pc = "reconcile_returned" /\ IsAbsent(employment_df) /\ IsAbsent(crime_df)
        => /\ demographic_data.columns =
                  (IF IsEmpty(population_df) THEN <<>>
                   ELSE <<ColCounty, ColPopulation, ColMedianAge>>)
           /\ ~HasColumn(demographic_data, ColUnemploymentRate)
           /\ ~HasColumn(demographic_data, ColEmployed)
           /\ ~HasColumn(demographic_data, ColCrimeIndex)

\* a table returned for population and age rows, employment None and an empty crime frame
C9_Witness ==
    /\ pc = "reconcile_returned"
    /\ employment_df = None
    /\ crime_df = EmptyFrame
    /\ demographic_data.columns = <<ColCounty, ColPopulation, ColMedianAge>>
    /\ Len(demographic_data.rows) > 1

-----------------------------------------------------------------------------
(* Claims about the crime scraper, checked under SpecCrime *)

\* the outcomes of a city's request that give no frame
CityFailures == CityPageFailures \cup {"parse_error", "no_data"}

\* the rows of a frame that carry a city's name
RowsOfCity(df, city_name) ==
    IF HasColumn(df, ColCity)
    THEN SelectSeq(df.rows, LAMBDA r : r[ColIndex(df, ColCity)] = city_name)
    ELSE <<>>

\* the requests made for the cities a directory request matched: those that follow it
\* up to the next directory request
CityRequestsAfter(k) ==
    LET later == {d \in (k + 1)..Len(crime_requests) : crime_requests[d].kind = "directory"}
        last == IF later = {} THEN Len(crime_requests)
                ELSE (CHOOSE d \in later : \A other \in later : d <= other) - 1
    IN [n \in 1..(last - k) |-> crime_requests[k + n].name]

\* C10: a city whose page fails to be fetched or parsed contributes no rows and ends
\* nothing: the scraper returns, having asked for the directory of every known state and
\* for the page of every matched city, with all the rows of the cities that were parsed
C10_CityFailureIsCaught ==
    /\ pc \in {"crime_state", "crime_city", "crime_returned"}
    /\ \A k \in 1..Len(crime_requests) :
          crime_requests[k].kind = "city" /\ crime_requests[k].outcome \in CityFailures
              => \A f \in 1..Len(all_crime_data) :
                    RowsOfCity(all_crime_data[f], crime_requests[k].name) = <<>>
    /\ pc = "crime_returned"
          => /\ \A st \in SeqToSet(UniqueStates(input_df)) :
                   DictHas(state_mapping, st)
                       => \E k \in 1..Len(crime_requests) :
                             /\ crime_requests[k].kind = "directory"
                             /\ crime_requests[k].name = st
             /\ \A k \in 1..Len(crime_requests) :
                   crime_requests[k].kind = "directory"
                       => CityRequestsAfter(k) = crime_requests[k].matched
             /\ \A k \in 1..Len(crime_requests) :
                   crime_requests[k].kind = "city"
                       => Len(RowsOfCity(crime_df, crime_requests[k].name))
                              = Len(crime_requests[k].df.rows)

\* the scraper returned the rows of a city that was scraped after the page of an
\* earlier city could not be fetched or its table could not be parsed
C10_Witness ==
    /\ pc = "crime_returned"
    /\ \E k \in 1..Len(crime_requests) :
          /\ crime_requests[k].kind = "city"
          /\ crime_requests[k].outcome \in {"parse_error", "http_error", "timeout"}
          /\ \E later \in (k + 1)..Len(crime_requests) :
                /\ crime_requests[later].kind = "city"
                /\ crime_requests[later].outcome = "ok"
                /\ RowsOfCity(crime_df, crime_requests[later].name) # <<>>

-----------------------------------------------------------------------------
(* Claims about parse_crime_table *)

\* what each body cell text is to be stored as
StoredAs ==
    { [cell |-> <<"1", ",", "2", "3", "4", " ", "(", "5", "6", ".", "7", ")">>,
       stored |-> <<"1", ",", "2", "3", "4", " ", "(", "5", "6", ".", "7", ")">>],
      [cell |-> <<>>,
       stored |-> <<"0">>],
      [cell |-> <<"7">>,
       stored |-> <<"7">>],
      [cell |-> <<"1", "2", "3", "4">>,
       stored |-> <<"1", ",", "2", "3", "4">>],
      [cell |-> <<"N", "/", "A">>,
       stored |-> <<"0">>],
      [cell |-> <<" ", "1", "2", " ", "(", "3", ".", "4", ")", " ">>,
       stored |-> <<"1", "2", " ", "(", "3", ".", "4", ")">>],
      [cell |-> <<" ", " ">>,
       stored |-> <<"0">>],
      [cell |-> <<"(", "9", ".", "9", ")">>,
       stored |-> <<"0", " ", "(", "9", ".", "9", ")">>],
      [cell |-> <<"1", "2", "3", "4", "5", "6", "7", " ", "(", "8", ".", "1", ")">>,
       stored |-> <<"1", ",", "2", "3", "4", ",", "5", "6", "7", " ", "(", "8", ".", "1", ")">>],
      [cell |-> <<"0", "0", "7">>,
       stored |-> <<"7">>],
      [cell |-> <<",">>,
       stored |-> <<"0">>],
      [cell |-> <<"5", " ", "(", ")">>,
       stored |-> <<"5">>] }

\* the body rows of the parsed table that give an output row
OutputBodyRows ==
    IF crtable = None THEN {}
    ELSE {k \in 1..Len(crtable[1].rows) :
             /\ crtable[1].rows[k].bold # None
             /\ crtable[1].rows[k].bold[1] # CityDataIndexType}

\* the rows of the returned frame of a crime type
RowsOfType(type) ==
    {k \in 1..Len(df_crime.df.rows) :
        df_crime.df.rows[k][ColIndex(df_crime.df, ColCrimeType)] = type}

\* C11: a body cell is stored as its leading count, read without thousands separators
\* and written with them, followed by " (rate)" with the rate text as it stood when the
\* cell holds a parenthesised rate; an empty cell is stored as "0", and a cell whose
\* count cannot be read is stored with the count 0.
C11_BodyCellStoredAsCountAndRate ==
    (pc = "parse_returned" /\ df_crime.status = "frame") =>
        \A k \in OutputBodyRows :
            \A i \in 1..Len(crtable[1].rows[k].cells) :
                (/\ i + 1 <= Len(crtable[1].headers)
                 /\ crtable[1].rows[k].cells[i] \in BodyCells)
                => \E case \in StoredAs :
                      /\ case.cell = crtable[1].rows[k].cells[i]
                      /\ \E r \in RowsOfType(crtable[1].rows[k].bold[1]) :
                            df_crime.df.rows[r][ColIndex(df_crime.df,
                                                         crtable[1].headers[i + 1])]
                            = Some(case.stored)

C11_Witness ==
    /\ pc = "parse_returned"
    /\ df_crime.status = "frame"
    /\ crtable = Some(CellTable(<<"1", ",", "2", "3", "4", " ", "(", "5", "6", ".", "7", ")">>, <<"N", "/", "A">>))
    /\ Len(df_crime.df.rows) = 1
    /\ df_crime.df.rows[1][3] = Some(<<"1", ",", "2", "3", "4", " ", "(", "5", "6", ".", "7", ")">>)
    /\ df_crime.df.rows[1][4] = Some(<<"0">>)

\* the body rows of the parsed table that give a "Crime Index" output row
BodyCrimeIndexRows ==
    {k \in OutputBodyRows : Strip(crtable[1].rows[k].bold[1]) = CrimeIndexType}

\* the parsed table has a footer row with cells after its first
FooterHasCells ==
    /\ crtable # None
    /\ crtable[1].tfoot = "ok"
    /\ Len(crtable[1].footer) >= 1

\* the year columns of the parsed table that the cells of a row of n cells fall under
YearPositions(n) == {i \in 1..n : i + 1 <= Len(crtable[1].headers)}

\* C12: the frame parsed from a table has at most one "Crime Index" row. When a body row
\* gave that category, the row holds the body's values and the footer adds nothing; when
\* none did, the footer gives the row, each cell's text as it stands and "Not Found" for
\* an empty cell; without either there is no such row. The body row labelled
\* "City-Data.com crime index" gives no row.
C12_AtMostOneCrimeIndexRow ==
    (pc = "parse_returned" /\ df_crime.status = "frame") =>
        /\ Cardinality(RowsOfType(CrimeIndexType)) <= 1
        /\ RowsOfType(CityDataIndexType) = {}
        /\ BodyCrimeIndexRows # {} =>
              \E r \in RowsOfType(CrimeIndexType) : \E k \in BodyCrimeIndexRows :
                 \A i \in YearPositions(Len(crtable[1].rows[k].cells)) :
                    df_crime.df.rows[r][ColIndex(df_crime.df, crtable[1].headers[i + 1])]
                    = Some(FormatCountCell(crtable[1].rows[k].cells[i]))
        /\ (BodyCrimeIndexRows = {} /\ FooterHasCells) =>
              \E r \in RowsOfType(CrimeIndexType) :
                 \A i \in YearPositions(Len(crtable[1].footer)) :
                    df_crime.df.rows[r][ColIndex(df_crime.df, crtable[1].headers[i + 1])]
                    = Some(IF Strip(crtable[1].footer[i]) = <<>> THEN NotFound
                           ELSE Strip(crtable[1].footer[i]))
        /\ (BodyCrimeIndexRows = {} /\ ~FooterHasCells) => RowsOfType(CrimeIndexType) = {}

C12_Witness ==
    /\ pc = "parse_returned"
    /\ df_crime.status = "frame"
    /\ crtable = Some(ServedTable("ok", YearHeaders, "ok", <<SiteIndexRow, BodyIndexRow>>,
                                  "ok", FooterCells))
    /\ Len(df_crime.df.rows) = 1
    /\ df_crime.df.rows[1][2] = CrimeIndexType
    /\ df_crime.df.rows[1][3] = Some(<<"2", "5", "0">>)

-----------------------------------------------------------------------------
(* Claims about the growth analysis and the trend analysis *)

\* the ranked locations in the order the analysis met them
Encountered == GrowthAnalysis(all_population_data)

\* the locations whose growth rate no other location's exceeds
TopLocations ==
    {k \in 1..Len(Encountered) :
        \A m \in 1..Len(Encountered) :
            ~CagrLess(Encountered[k].CAGR_Pct, Encountered[m].CAGR_Pct)}

\* C13: the strongest market reported by the population fetcher is a location whose
\* growth rate is the greatest of the ranked locations, and of several locations with
\* the greatest rate it is the one the analysis met first.
C13_StrongestIsFirstOfTheGreatest ==
    (pc = "growth_done" /\ Encountered # <<>>) =>
        /\ strongest_market_info # None
        /\ \E k \in TopLocations :
              /\ \A m \in TopLocations : k <= m
              /\ strongest_market_info[1].city = Encountered[k].City
              /\ strongest_market_info[1].county = Encountered[k].County

\* the records of the scenario: Orlando 250000 in 2015 and 280000 in 2020, Tampa 350000
\* and 370000
ScenarioRecordLists ==
    {PopulationRecords(areas, <<2015, 2016, 2017, 2018, 2019, 2020>>,
                       ScenarioPopulation(areas)) : areas \in AnalysisAreas}

\* C14: with population records for 2015 and 2020 of 250000 and 280000 for Orlando, FL
\* (Orange County) and of 350000 and 370000 for Tampa, FL (Hillsborough County), the
\* population fetcher ranks Orlando's growth rate above Tampa's and reports Orlando as
\* the strongest market.
C14_OrlandoRankedAboveTampa ==
    (pc = "growth_done" /\ all_population_data \in ScenarioRecordLists) =>
        /\ Len(growth_df) = 2
        /\ growth_df[1].City = Orlando
        /\ growth_df[2].City = Tampa
        /\ growth_df[1].Start_Population = 250000 /\ growth_df[1].End_Population = 280000
        /\ growth_df[2].Start_Population = 350000 /\ growth_df[2].End_Population = 370000
        /\ growth_df[1].Years_Analyzed = 5 /\ growth_df[2].Years_Analyzed = 5
        /\ strongest_market_info # None
        /\ strongest_market_info[1].city = Orlando
        /\ strongest_market_info[1].county = OrangeCounty

C14_Witness ==
    /\ pc = "growth_done"
    /\ all_population_data
       = PopulationRecords(<<CityFacts[1], CityFacts[3]>>,
                           <<2015, 2016, 2017, 2018, 2019, 2020>>,
                           ScenarioPopulation(<<CityFacts[1], CityFacts[3]>>))
    /\ strongest_market_info # None
    /\ strongest_market_info[1].city = Orlando

\* the records of a ranked location that hold a population
Observations(row) ==
    {r \in SeqToSet(all_population_data) :
        /\ r.City = row.City /\ r.State = row.State /\ r.County = row.County
        /\ r.Population # None}

FirstObservation(row) ==
    CHOOSE r \in Observations(row) : \A o \in Observations(row) : r.Year <= o.Year

LastObservation(row) ==
    CHOOSE r \in Observations(row) : \A o \in Observations(row) : o.Year <= r.Year

\* the rate c is ((end / start) ** (1 / years) - 1) * 100
IsCagrOf(c, end, start, years) ==
    /\ c.years = years
    /\ c.num * start = c.den * end

\* the rate c, a percentage, lies in [hundredths / 100, (hundredths + 1) / 100)
RoundsDownTo(c, hundredths) ==
    /\ Pow(10000 + hundredths, c.years) * c.den <= c.num * Pow(10000, c.years)
    /\ c.num * Pow(10000, c.years) < Pow(10000 + hundredths + 1, c.years) * c.den

\* C15: the growth rate of a ranked location is ((end / start) ** (1 / (y1 - y0)) - 1) as
\* a percentage, start and end being its first and last observations that hold a value,
\* at the years y0 < y1; 100 growing to 200 over 2 years gives 41.42 % to two places.
C15_CagrOfFirstAndLastObservation ==
    pc = "growth_done" =>
        \A k \in 1..Len(growth_df) :
            LET row == growth_df[k]
                first == FirstObservation(row)
                last == LastObservation(row)
            IN /\ first.Year < last.Year
               /\ IsCagrOf(row.CAGR_Pct, last.Population[1], first.Population[1],
                           last.Year - first.Year)
               /\ (/\ first.Population[1] = 100
                   /\ last.Population[1] = 200
                   /\ last.Year - first.Year = 2) => RoundsDownTo(row.CAGR_Pct, 4142)

C15_Witness ==
    /\ pc = "growth_done"
    /\ \E k \in 1..Len(growth_df) :
          /\ growth_df[k].Start_Population = 100
          /\ growth_df[k].End_Population = 200
          /\ growth_df[k].Years_Analyzed = 2
          /\ RoundsDownTo(growth_df[k].CAGR_Pct, 4142)
          /\ \E r \in SeqToSet(all_population_data) :
                r.City = growth_df[k].City /\ r.Year = 2016 /\ r.Population = None

\* the records of a ranked location that hold both employment values
EmploymentObservations(row) ==
    {r \in SeqToSet(all_employment_data) :
        /\ r.City = row.City /\ r.State = row.State /\ r.County = row.County
        /\ r.employed # None /\ r.unemployment_rate # None}

FirstEmployment(row) ==
    CHOOSE r \in EmploymentObservations(row) :
        \A o \in EmploymentObservations(row) : r.Year <= o.Year

LastEmployment(row) ==
    CHOOSE r \in EmploymentObservations(row) :
        \A o \in EmploymentObservations(row) : o.Year <= r.Year

\* the growth rate c over one year is the whole percentage n
RateIs(c, n) == c.years = 1 /\ 100 * (c.num - c.den) = n * c.den

\* the score over one year is the whole number n
ScoreIs(score, n) ==
    /\ score.cagr.years = 1
    /\ 100 * (score.cagr.num - score.cagr.den) + score.plus * score.cagr.den
       = n * score.cagr.den

\* C16: the composite score of a ranked location is its employment growth rate less
\* twice the change of its unemployment rate from the first to the last observation; a
\* growth rate of 5.0 with a change of -1.0 gives 7.0.
C16_CompositeIsCagrLessTwiceChange ==
    pc = "trend_done" =>
        \A k \in 1..Len(employment_analysis_df) :
            LET row == employment_analysis_df[k]
                change == LastEmployment(row).unemployment_rate[1]
                          - FirstEmployment(row).unemployment_rate[1]
            IN /\ row.Unemployment_Change = change
               /\ IsCagrOf(row.Employment_CAGR_Pct, LastEmployment(row).employed[1],
                           FirstEmployment(row).employed[1],
                           LastEmployment(row).Year - FirstEmployment(row).Year)
               /\ row.Composite_Score.cagr = row.Employment_CAGR_Pct
               /\ row.Composite_Score.plus + 2 * change = 0
               /\ (RateIs(row.Employment_CAGR_Pct, 5) /\ change = -1)
                  => ScoreIs(row.Composite_Score, 7)

C16_Witness ==
    /\ pc = "trend_done"
    /\ \E k \in 1..Len(employment_analysis_df) :
          /\ RateIs(employment_analysis_df[k].Employment_CAGR_Pct, 5)
          /\ employment_analysis_df[k].Unemployment_Change = -1
          /\ ScoreIs(employment_analysis_df[k].Composite_Score, 7)

-----------------------------------------------------------------------------
(* Claims about a run *)

\* C17: with either API key absent a run ends before any fetch: it sends no resolver,
\* census, BLS or crime request and enters no stage, from the CLI entry point and from
\* the dashboard entry point alike.
C17_MissingKeyEndsRunBeforeAnyFetch ==
    (~census_api_key \/ ~bls_api_key) =>
        /\ pc \in {"run_start", "run_refused"}
        /\ resolver_requests = <<>>
        /\ census_requests = <<>>
        /\ bls_requests = <<>>
        /\ crime_requests = <<>>
        /\ target_areas = <<>>
        /\ demographic_data = EmptyFrame

C17_Witness ==
    /\ pc = "run_refused"
    /\ census_api_key # bls_api_key
    /\ resolver_requests = <<>>

\* a request of the census, BLS or crime stage has failed
SomeFetchFailed ==
    \/ \E k \in 1..Len(census_requests) : ~census_requests[k].ok
    \/ \E k \in 1..Len(bls_requests) : bls_requests[k].status # "REQUEST_SUCCEEDED"
    \/ \E k \in 1..Len(crime_requests) : crime_requests[k].outcome # "ok"

\* C18: the only errors that leave a run are the resolver's resolution errors (and the
\* configuration errors); a census, BLS, directory or city request that fails is caught,
\* and the run goes on to reconciliation.
C18_OnlyResolutionErrorsStopTheRun ==
    /\ pc = "run_raised" => error # None
    /\ (pc \in {"run_raised", "run_error_shown", "run_done"} /\ SomeFetchFailed)
       => pc = "run_done"

\* the stage a position belongs to: 0 before the resolver, 1 the resolver, 2 the
\* population/age fetcher, 3 the employment fetcher, 4 the crime scraper,
\* 5 reconciliation, 6 after the run
Stage(p) ==
    IF p = "run_start" THEN 0
    ELSE IF p \in {"resolve_row", "resolve_returned", "resolve_raised"} THEN 1
    ELSE IF p \in {"census_year", "census_area", "census_return", "census_returned"} THEN 2
    ELSE IF p \in {"bls_setup", "bls_year", "bls_batch", "bls_return", "bls_returned"} THEN 3
    ELSE IF p \in {"crime_state", "crime_city", "crime_returned"} THEN 4
    ELSE IF p \in {"reconcile_population", "reconcile_age", "reconcile_employment",
                   "reconcile_crime", "reconcile_report", "reconcile_returned"} THEN 5
    ELSE 6

\* the positions at which a stage has run to completion and returned
StageReturned ==
    {"run_start", "resolve_returned", "census_returned", "bls_returned", "crime_returned",
     "reconcile_returned"}

\* C26: in a run the stages follow one another in the order resolver, population/age
\* fetcher, employment fetcher, crime scraper, reconciliation: a stage begins only from
\* the returned position of the stage before it, a step of one stage changes no request
\* log or result of another, and reconciliation begins only when the crime scraper has
\* returned, after both fetchers, with the target-area map and the three results as
\* they were returned
C26_StagesInOrder ==
    [][/\ Stage(pc') # Stage(pc)
             => \/ Stage(pc') = 6
                \/ pc \in StageReturned /\ Stage(pc') = Stage(pc) + 1
       /\ Stage(pc) # 1 => UNCHANGED <<target_areas, resolver_requests>>
       /\ Stage(pc) # 2 => UNCHANGED <<census_requests, population_df, age_df>>
       /\ Stage(pc) # 3 => UNCHANGED <<bls_requests, employment_df>>
       /\ Stage(pc) # 4 => UNCHANGED <<crime_requests, crime_df>>
       /\ Stage(pc) # 5 => UNCHANGED demographic_data
       /\ (Stage(pc') = 5 /\ Stage(pc) # 5)
             => /\ pc = "crime_returned"
                /\ target_areas # <<>>
                /\ resolver_requests # <<>>
                /\ bls_requests = <<>> => BlsAreaCodes(target_areas) = <<>>
                /\ crime_requests = <<>> =>
                       \A k \in 1..Len(input_df) : ~DictHas(state_mapping, input_df[k].State)
      ]_vars

\* a run of the dashboard that went through every stage and drew its charts
C26_Witness ==
    /\ pc = "run_done"
    /\ entry = "app"
    /\ resolver_requests # <<>>
    /\ census_requests # <<>>
    /\ bls_requests # <<>>
    /\ crime_requests # <<>>
    /\ ~IsEmpty(demographic_data)

-----------------------------------------------------------------------------
(* Further claims about the geographic resolver, checked under SpecResolve *)

WordsCityNotFound == <<"C", "i", "t", "y", " ", "n", "o", "t", " ", "f", "o", "u", "n", "d">>

WordsHttpError == <<"H", "T", "T", "P", " ", "E", "r", "r", "o", "r">>

WordsNoCountyInfo == <<"C", "o", "u", "l", "d", " ", "n", "o", "t", " ", "f", "i", "n", "d", " ", "c", "o", "u", "n", "t", "y", " ", "i", "n", "f", "o">>

\* the kind of failure a message reports, read off its words
ReportedKind(message) ==
    IF Contains(WordsNoCountyInfo, message) THEN "structural"
    ELSE IF Contains(WordsHttpError, message) THEN "http"
    ELSE IF Contains(WordsCityNotFound, message) THEN "not_found"
    ELSE "other"

\* the resolver has raised for the page of the last request
PageFailed(outcomes) ==
    /\ pc = "resolve_raised"
    /\ resolver_requests # <<>>
    /\ resolver_requests[Len(resolver_requests)].kind = "city_page"
    /\ resolver_requests[Len(resolver_requests)].outcome \in outcomes

\* C19: a failed resolution says which kind of failure it was: a 404 on the city page
\* gives a "City not found" error that names the city and the state, another HTTP error
\* gives an "HTTP Error" message, and a page without a breadcrumb, with fewer than three
\* entries or without a link in the third gives a "Could not find county info" error;
\* no two of the three kinds are reported with the same message.
C19_FailureKindIsReported ==
    /\ PageFailed({"404"}) =>
          /\ ReportedKind(error[1]) = "not_found"
          /\ Contains(CityState(input_df[row_i].City, input_df[row_i].State), error[1])
    /\ PageFailed({"http_error"}) => ReportedKind(error[1]) = "http"
    /\ PageFailed({"no_breadcrumb", "short_breadcrumb", "no_county_link"}) =>
          ReportedKind(error[1]) = "structural"

C19_Witness ==
    /\ PageFailed({"short_breadcrumb"})
    /\ ReportedKind(error[1]) = "structural"
    /\ Contains(CityState(Jonesboro, GA), error[1])

\* the candidate's name is the county name, both cleaned, whatever the case
EqualsExactly(county_name, row) ==
    Lower(CleanCountyName(county_name)) = Lower(CleanCandidateName(row[1]))

\* one of the two cleaned names is part of the other
EitherHoldsTheOther(county_name, row) ==
    \/ Contains(Lower(CleanCountyName(county_name)), Lower(CleanCandidateName(row[1])))
    \/ Contains(Lower(CleanCandidateName(row[1])), Lower(CleanCountyName(county_name)))

\* the county-list requests that were served rows of three columns, each the last one
\* made for its area
ServedLists ==
    {k \in 1..Len(resolver_requests) :
        /\ resolver_requests[k].kind = "county_list"
        /\ resolver_requests[k] = LastCountyListOf(resolver_requests[k].area)
        /\ resolver_requests[k].response # None
        /\ \A i \in 1..Len(resolver_requests[k].response[1]) :
              Len(resolver_requests[k].response[1][i]) >= 3}

\* C20: when a candidate of the county list equals the county name exactly (" County"
\* stripped, case ignored), the code stored is that of an exactly equal candidate,
\* wherever the candidates that only hold or are held by the name stand in the list;
\* only when none is equal is it the code of the first such candidate.
C20_ExactMatchBeforePartialMatch ==
    \A k \in ServedLists :
        LET q == resolver_requests[k]
            rows == q.response[1]
            exact == {i \in 1..Len(rows) : EqualsExactly(q.county_name, rows[i])}
            partial == {i \in 1..Len(rows) : EitherHoldsTheOther(q.county_name, rows[i])}
            stored == DictGet(target_areas, q.area).fips_county
        IN /\ exact # {} => \E i \in exact : stored = rows[i][3]
           /\ (exact = {} /\ partial # {}) =>
                 stored = rows[CHOOSE i \in partial : \A j \in partial : i <= j][3]

\* the county of the first target area, in the map's order, whose city name holds the
\* crime city's name or is held by it, case ignored; the crime city's name when there
\* is no such area
RECURSIVE CountyOfFirstArea(_, _)
CountyOfFirstArea(x, areas) ==
    IF areas = <<>> THEN x
    ELSE IF \/ Contains(Lower(Head(areas).value.city), Lower(x))
            \/ Contains(Lower(x), Lower(Head(areas).value.city))
         THEN Head(areas).value.county
         ELSE CountyOfFirstArea(x, Tail(areas))

NextPosition(p) ==
    IF p = "reconcile_population" THEN "reconcile_age"
    ELSE IF p = "reconcile_age" THEN "reconcile_employment"
    ELSE IF p = "reconcile_employment" THEN "reconcile_crime"
    ELSE IF p = "reconcile_crime" THEN "reconcile_report"
    ELSE "reconcile_returned"

\* a table: every row has a cell for every column
IsTable(df) == \A k \in 1..Len(df.rows) : Len(df.rows[k]) = Len(df.columns)

\* C27: whichever of population, age, employment, crime and the target areas are there
\* or are absent or empty, every block of reconcile ends and the next one runs, the
\* last one returns a table, and the table has no employment column when employment is
\* absent and no crime column when crime or the target areas are absent
C27_ReturnsForEveryCombination ==
    [][/\ pc # "reconcile_returned" => pc' = NextPosition(pc)
       /\ IsTable(demographic_data')
       /\ pc' = "reconcile_returned" =>
             /\ IsAbsent(employment_df)
                   => /\ ~HasColumn(demographic_data', ColUnemploymentRate)
                      /\ ~HasColumn(demographic_data', ColEmployed)
             /\ (IsAbsent(crime_df) \/ target_areas = None)
                   => ~HasColumn(demographic_data', ColCrimeIndex)
             /\ (IsEmpty(population_df) /\ IsEmpty(age_df) /\ IsAbsent(employment_df)
                 /\ (IsAbsent(crime_df) \/ target_areas = None))
                   => demographic_data' = EmptyFrame
      ]_vars

\* a table returned with the county names alone: population and age rows without a
\* value, no employment, a crime table and no target areas
C27_Witness ==
    /\ pc = "reconcile_returned"
    /\ employment_df = None
    /\ ~IsAbsent(crime_df)
    /\ target_areas = None
    /\ demographic_data.columns = <<ColCounty, ColPopulation, ColMedianAge>>
    /\ Len(demographic_data.rows) > 0
    /\ \A k \in 1..Len(demographic_data.rows) :
          demographic_data.rows[k][2] = None /\ demographic_data.rows[k][3] = None

-----------------------------------------------------------------------------
(* Further claims about the crime scraper, checked under SpecCrime *)

\* a display name without its trailing ", STATE"
WithoutStateSuffix(name, state_abbr) ==
    IF EndsWith(name, <<",", " ">> \o state_abbr)
    THEN SubSeq(name, 1, Len(name) - Len(state_abbr) - 2)
    ELSE name

\* the display name is, case ignored, that of a city the user asked for in the state
ExactlyRequested(name, state_abbr) ==
    \E k \in 1..Len(input_df) :
        /\ input_df[k].State = state_abbr
        /\ Lower(WithoutStateSuffix(name, state_abbr)) = Lower(input_df[k].City)

\* the state of the directory request that a city request follows
StateOfRequest(k) ==
    crime_requests[CHOOSE d \in 1..k :
                      /\ crime_requests[d].kind = "directory"
                      /\ \A m \in (d + 1)..k : crime_requests[m].kind # "directory"].name

\* the user's rows whose city a state's directory listing did not hold
Unmatched(k) ==
    {r \in 1..Len(input_df) :
        /\ input_df[r].State = crime_requests[k].name
        /\ \A n \in 1..Len(crime_requests[k].matched) :
              Lower(WithoutStateSuffix(crime_requests[k].matched[n], crime_requests[k].name))
                  # Lower(input_df[r].City)}

\* C25: the scraper asks for the page of a directory entry only when the entry's name
\* without the trailing ", STATE" is, case ignored, a city the user asked for in that
\* state, and every row it returns is of such an entry: a city without an entry of
\* exactly its name gets no row, and no entry of a similar name stands in for it
C25_OnlyExactlyNamedCitiesScraped ==
    /\ \A k \in 1..Len(crime_requests) :
          /\ crime_requests[k].kind = "city"
                 => ExactlyRequested(crime_requests[k].name, StateOfRequest(k))
          /\ crime_requests[k].kind = "directory"
                 => \A n \in 1..Len(crime_requests[k].matched) :
                       ExactlyRequested(crime_requests[k].matched[n], crime_requests[k].name)
    /\ pc = "crime_returned" /\ HasColumn(crime_df, ColCity)
          => \A r \in 1..Len(crime_df.rows) :
                \E k \in 1..Len(crime_requests) :
                    /\ crime_requests[k].kind = "city"
                    /\ crime_requests[k].name = crime_df.rows[r][ColIndex(crime_df, ColCity)]
                    /\ ExactlyRequested(crime_requests[k].name, StateOfRequest(k))

\* the user asked for Apopka, the directory held South Apopka and not Apopka, and the
\* scraper returned without a page requested and without a row
C25_Witness ==
    /\ pc = "crime_returned"
    /\ input_df = <<[City |-> Apopka, State |-> FL]>>
    /\ Len(crime_requests) = 1
    /\ crime_requests[1].kind = "directory"
    /\ crime_requests[1].outcome = "ok"
    /\ crime_requests[1].matched = <<>>
    /\ Unmatched(1) = {1}
    /\ IsEmpty(crime_df)

-----------------------------------------------------------------------------
(* Further claims about parse_crime_table, checked under SpecParse *)

\* the dicts parse_crime_table has built when it makes the frame, in the order built
ConstructedRows ==
    WithFooter(BodyData(crtable[1].rows, crtable[1].headers, Unknown), crtable[1],
               crtable[1].headers, Unknown)

\* the positions of the rows of a frame with a city and a category
RowsOfPair(df, city, type) ==
    {k \in 1..Len(df.rows) :
        /\ df.rows[k][ColIndex(df, ColCity)] = city
        /\ df.rows[k][ColIndex(df, ColCrimeType)] = type}

\* C23: in the frame parse_crime_table returns for a city, a (city, category) pair
\* occurs once at most, whatever the category: of the rows built with one pair only
\* the one built last is in the frame
C23_PairOccursOnce ==
    (pc = "parse_returned" /\ df_crime.status = "frame" /\ ~IsEmpty(df_crime.df)) =>
        \A k \in 1..Len(ConstructedRows) :
            LET city == DictGet(ConstructedRows[k], ColCity)
                type == DictGet(ConstructedRows[k], ColCrimeType)
            IN Cardinality(RowsOfPair(df_crime.df, city, type)) = 1

-----------------------------------------------------------------------------
(* Further claims about the growth analysis and the trend analysis *)

\* the locations of the records of a fetcher
LocationsOf(records) ==
    {<<records[k].City, records[k].State, records[k].County>> : k \in 1..Len(records)}

\* the records of a location that hold a value in every one of the fields
NonNull(records, key, fields) ==
    {r \in SeqToSet(records) :
        /\ <<r.City, r.State, r.County>> = key
        /\ \A f \in fields : r[f] # None}

\* the record of the least year and the record of the greatest year of a set of records
Earliest(S) == CHOOSE r \in S : \A o \in S : r.Year <= o.Year

Latest(S) == CHOOSE r \in S : \A o \in S : o.Year <= r.Year

\* at least two observations, the first one's value above zero, and the first and the
\* last one of different years
Qualifies(S, field) ==
    /\ Cardinality(S) >= 2
    /\ Earliest(S)[field][1] > 0
    /\ Earliest(S).Year # Latest(S).Year

\* the positions of a location in a ranking
RankedAt(ranking, key) ==
    {k \in 1..Len(ranking) : <<ranking[k].City, ranking[k].State, ranking[k].County>> = key}

\* C22: a location is ranked by a fetcher's analysis, once, exactly when it has two or
\* more observations without a missing value, the first of them above zero and the
\* first and the last of different years; its start and end are the first and the last
\* of these observations by year; the other locations are left out and the analysis
\* ends all the same; when no location is ranked the summary is None
C22_RankedIffEnoughHistory ==
    /\ pc = "growth_done" =>
          /\ \A key \in LocationsOf(all_population_data) :
                LET S == NonNull(all_population_data, key, {"Population"})
                    at == RankedAt(growth_df, key)
                IN /\ Cardinality(at) = (IF Qualifies(S, "Population") THEN 1 ELSE 0)
                   /\ \A k \in at :
                         /\ growth_df[k].Start_Population = Earliest(S).Population[1]
                         /\ growth_df[k].End_Population = Latest(S).Population[1]
                         /\ growth_df[k].Years_Analyzed = Latest(S).Year - Earliest(S).Year
          /\ \A k \in 1..Len(growth_df) :
                <<growth_df[k].City, growth_df[k].State, growth_df[k].County>>
                    \in LocationsOf(all_population_data)
          /\ (growth_df = <<>>) <=> (strongest_market_info = None)
    /\ pc = "trend_done" =>
          /\ \A key \in LocationsOf(all_employment_data) :
                LET S == NonNull(all_employment_data, key, {"employed", "unemployment_rate"})
                    at == RankedAt(employment_analysis_df, key)
                IN /\ Cardinality(at) = (IF Qualifies(S, "employed") THEN 1 ELSE 0)
                   /\ \A k \in at :
                         /\ employment_analysis_df[k].Start_Employed = Earliest(S).employed[1]
                         /\ employment_analysis_df[k].End_Employed = Latest(S).employed[1]
                         /\ employment_analysis_df[k].Start_Unemployment_Rate
                                = Earliest(S).unemployment_rate[1]
                         /\ employment_analysis_df[k].End_Unemployment_Rate
                                = Latest(S).unemployment_rate[1]
                         /\ employment_analysis_df[k].Years_Analyzed
                                = Latest(S).Year - Earliest(S).Year
          /\ \A k \in 1..Len(employment_analysis_df) :
                <<employment_analysis_df[k].City, employment_analysis_df[k].State,
                  employment_analysis_df[k].County>> \in LocationsOf(all_employment_data)
          /\ (employment_analysis_df = <<>>) <=> (strongest_employment_info = None)

\* an analysis that ranked one location and left out the other, whose first population
\* is zero, without an error
C22_Witness ==
    /\ pc = "growth_done"
    /\ Len(growth_df) = 1
    /\ strongest_market_info # None
    /\ \E key \in LocationsOf(all_population_data) :
          LET S == NonNull(all_population_data, key, {"Population"})
          IN /\ Cardinality(S) >= 2
             /\ Earliest(S).Population[1] = 0
             /\ RankedAt(growth_df, key) = {}

-----------------------------------------------------------------------------
(* Further claims about analyze_and_visualize_data, checked under SpecReconcile *)

\* the county names that occur in the population, age and employment inputs
InputCounties ==
    CountiesOf(population_df) \cup CountiesOf(age_df)
        \cup (IF IsAbsent(employment_df) THEN {} ELSE CountiesOf(employment_df))

\* C21: the merged table that is returned has exactly one row for every distinct county
\* name of its population, age and employment inputs, also when two target areas
\* resolve to one county and when two crime cities map to one county
C21_OneRowPerCounty ==
    pc = "reconcile_returned"
        => \A county \in InputCounties : RowCount(demographic_data, county) = 1


-----------------------------------------------------------------------------
(* Further claims about the fetchers, checked under SpecFetch *)

\* request n succeeded and its response holds a data point of every series asked for
BlsFullyServed(n) ==
    /\ bls_requests[n].status = "REQUEST_SUCCEEDED"
    /\ \A s \in SeqToSet(bls_requests[n].seriesid) :
        \E m \in 1..Len(bls_requests[n].series) :
            /\ bls_requests[n].series[m].seriesID = s
            /\ bls_requests[n].series[m].data # <<>>

\* C28 (as claimed): when the employment fetcher has returned, every area with a valid
\* county FIPS has, for every year whose request succeeded with a data point of every
\* series asked for, exactly one employment record, holding both unemployment_rate and
\* employed, two areas of one county included
C28_OneEmploymentRecordPerServedYear ==
    pc = "bls_returned" =>
        \A k \in ResolvedAreas, y \in start_year..end_year :
            (BlsRequestsOf(k, y) # {} /\ \A n \in BlsRequestsOf(k, y) : BlsFullyServed(n)) =>
                /\ Cardinality(RecordsOf(all_employment_data, k, y)) = 1
                /\ \A m \in RecordsOf(all_employment_data, k, y) :
                    /\ all_employment_data[m].unemployment_rate # None
                    /\ all_employment_data[m].employed # None


-----------------------------------------------------------------------------
(* Further claims about a run over a range of years, checked under SpecRunYears *)

\* df['Year'].max() of a fetcher's records
LatestYear(records) == Max({records[k].Year : k \in 1..Len(records)})

\* C29 (as claimed): when reconciliation has returned with a population slice and an
\* employment slice in hand, the two slices are of the same year, whatever requests of
\* the two fetchers failed
C29_SlicesOfTheSameYear ==
    (/\ pc = "reconcile_returned"
     /\ ~IsEmpty(population_df)
     /\ ~IsEmpty(employment_df)) =>
        LatestYear(all_population_data) = LatestYear(all_employment_data)


-----------------------------------------------------------------------------
(* Further claims about the entry points, checked under SpecRun *)

\* C30 (as claimed): with both keys at hand and the resolution done, a run of either
\* entry point whose population/age fetcher has returned goes on to the employment
\* fetcher with the fetcher's tables as they are, and so on to reconciliation; the CLI
\* does not stop between the fetch stages and reconciliation
C30_CliReachesReconciliationLikeTheDashboard ==
    [][ (pc = "census_returned" /\ entry \in {"main", "app"}) =>
            /\ pc' = "bls_setup"
            /\ UNCHANGED <<population_df, age_df, employment_df, target_areas>> ]_vars

====
